---- MODULE Spec2Model ----
(***************************************************************************)
(* Kidlock: the enforcement and time-accounting engine (agent/enforcer.py), *)
(* the clock tamper detector (agent/tamper_detector.py), the login gate     *)
(* (check_login_allowed) and the enforcement half of the agent's tick       *)
(* (agent/main.py).                                                         *)
(*                                                                          *)
(* Conventions of the model                                                 *)
(*  - Python's Optional[x] is a sequence: None is <<>>, a value x is <<x>>. *)
(*  - A string the code parses or searches (a schedule window, a block      *)
(*    reason) is modelled by its characters, a tuple of 1-character strings *)
(*    (see Chars), and the parse or search is computed on the characters.   *)
(*  - The wall clock is the local time in whole seconds since local         *)
(*    1970-01-01 00:00:00 (a Thursday); a date is its day number, an ISO    *)
(*    date or timestamp string is modelled by the number it encodes         *)
(*    (isoformat is injective).                                             *)
(*  - `last` records the most recent call: its name, arguments and return   *)
(*    value, so that contracts of calls are state or action properties.     *)
(***************************************************************************)
EXTENDS Integers, Sequences, FiniteSets, TLC

VARIABLES
    user_states,     \* Enforcer._user_states: username -> UserState (partial map)
    store,           \* the state file /var/lib/kidlock/state.json
    writable,        \* whether open(STATE_FILE, "w") succeeds
    wall,            \* wall clock, seconds (settable by a clock administrator)
    mono,            \* monotonic clock, seconds
    logged_in,       \* the users `who` lists
    last_logged_in,  \* KidlockAgent._last_logged_in
    td_last,         \* TamperDetector: Optional (_last_wall_time, _last_monotonic)
    td_span,         \* history: highest wall-mono offset seen by a check since the last tampered report
    gate_due,        \* history: users whose forced logout failed to terminate and who were not unlocked since
    warned,          \* history: the warnings marked as sent, by user, threshold and day
    pc,              \* the main thread inside a tick, after check_user of the first user: Optional record
    last_check,      \* KidlockAgent._last_check: time.time() at the latest accounting step
    tamper_detected, \* KidlockAgent._tamper_detected
    last             \* the most recent call and what it returned

vars == <<user_states, store, writable, wall, mono, logged_in, last_logged_in,
          td_last, td_span, gate_due, warned, pc, last_check,
          tamper_detected, last>>

-----------------------------------------------------------------------------
(* Bounds of the model *)

MaxDay == 2          \* wall-clock dates are days 1..MaxDay (day 1 is a Friday)
MaxUsage == 2        \* usage_minutes is explored up to this value
MaxBonus == 1        \* bonus_minutes is explored up to this value
MaxMono == 3         \* the tamper specification runs this many clock steps

-----------------------------------------------------------------------------
(* Generic helpers *)

None == <<>>
Some(x) == <<x>>

Max(a, b) == IF a >= b THEN a ELSE b

Range(s) == {s[i] : i \in DOMAIN s}

RECURSIVE SetToSeq(_)
SetToSeq(S) ==
    IF S = {} THEN <<>>
    ELSE LET x == CHOOSE y \in S : \A z \in S : y <= z
         IN  <<x>> \o SetToSeq(S \ {x})

Put(S, u, v) == [x \in (DOMAIN S) \cup {u} |-> IF x = u THEN v ELSE S[x]]

EmptyMap == [x \in {} |-> 0]

-----------------------------------------------------------------------------
(* Strings by their characters *)

UPPERCASE == <<"A", "B", "C", "D", "E", "F", "G", "H", "I", "J", "K", "L", "M", "N", "O", "P", "Q", "R", "S", "T", "U", "V", "W", "X", "Y", "Z">>
LOWERCASE == <<"a", "b", "c", "d", "e", "f", "g", "h", "i", "j", "k", "l", "m", "n", "o", "p", "q", "r", "s", "t", "u", "v", "w", "x", "y", "z">>
DIGITS == <<"0", "1", "2", "3", "4", "5", "6", "7", "8", "9">>

\* str.lower() on one character
lower_char(c) ==
    IF \E i \in DOMAIN UPPERCASE : UPPERCASE[i] = c
    THEN LOWERCASE[CHOOSE i \in DOMAIN UPPERCASE : UPPERCASE[i] = c]
    ELSE c

\* str.lower()
lower(s) == [i \in DOMAIN s |-> lower_char(s[i])]

\* Python's `needle in hay` on strings
str_contains(hay, needle) ==
    \E i \in 0..(Len(hay) - Len(needle)) : SubSeq(hay, i + 1, i + Len(needle)) = needle

is_digit(c) == \E i \in DOMAIN DIGITS : DIGITS[i] = c
digit_value(c) == (CHOOSE i \in DOMAIN DIGITS : DIGITS[i] = c) - 1

\* str.strip(): leading and trailing blanks removed
RECURSIVE lstrip(_)
lstrip(s) == IF s # <<>> /\ Head(s) = " " THEN lstrip(Tail(s)) ELSE s
RECURSIVE rstrip(_)
rstrip(s) == IF s # <<>> /\ s[Len(s)] = " " THEN rstrip(SubSeq(s, 1, Len(s) - 1)) ELSE s
strip(s) == rstrip(lstrip(s))

\* `a, b = s.split("-")`: the two parts, or None when the unpacking raises
\* ValueError (no hyphen, or more than one)
split_hyphen(s) ==
    LET hy == {i \in DOMAIN s : s[i] = "-"}
    IN  IF Cardinality(hy) # 1 THEN None
        ELSE LET i == CHOOSE j \in hy : TRUE
             IN  Some(<<SubSeq(s, 1, i - 1), SubSeq(s, i + 1, Len(s))>>)

\* datetime.strptime(s, "%H:%M").time() as seconds of the day, or None when
\* it raises ValueError. %H is (2[0-3]|[0-1]\d|\d), %M is ([0-5]\d|\d), and
\* the whole string must be consumed.
strptime_HM(s) ==
    LET colons == {i \in DOMAIN s : s[i] = ":"}
        c == CHOOSE i \in colons : \A j \in colons : i <= j
        h == SubSeq(s, 1, c - 1)
        m == SubSeq(s, c + 1, Len(s))
        num(d) == IF Len(d) = 1 THEN digit_value(d[1])
                  ELSE 10 * digit_value(d[1]) + digit_value(d[2])
    IN  IF colons = {} THEN None
        ELSE IF ~(Len(h) \in {1, 2} /\ Len(m) \in {1, 2}) THEN None
        ELSE IF ~(\A i \in DOMAIN h : is_digit(h[i])) THEN None
        ELSE IF ~(\A i \in DOMAIN m : is_digit(m[i])) THEN None
        ELSE IF num(h) > 23 \/ num(m) > 59 THEN None
        ELSE Some((num(h) * 60 + num(m)) * 60)

\* The block reasons the agent uses, and one a caller of force_logout chose
REASON_SCHEDULE == "Outside allowed hours"
REASON_LIMIT == "Daily time limit reached"
REASON_LOCK == "Remote lock command"
REASON_OTHER == "Time LIMIT over"
Reasons == {REASON_SCHEDULE, REASON_LIMIT, REASON_LOCK, REASON_OTHER}

\* The characters of a string of the model
Chars(s) ==
    CASE s = "" -> <<>>
      [] s = "limit" -> <<"l", "i", "m", "i", "t">>
      [] s = REASON_SCHEDULE -> <<"O", "u", "t", "s", "i", "d", "e", " ", "a", "l", "l", "o", "w", "e", "d", " ", "h", "o", "u", "r", "s">>
      [] s = REASON_LIMIT -> <<"D", "a", "i", "l", "y", " ", "t", "i", "m", "e", " ", "l", "i", "m", "i", "t", " ", "r", "e", "a", "c", "h", "e", "d">>
      [] s = REASON_LOCK -> <<"R", "e", "m", "o", "t", "e", " ", "l", "o", "c", "k", " ", "c", "o", "m", "m", "a", "n", "d">>
      [] s = REASON_OTHER -> <<"T", "i", "m", "e", " ", "L", "I", "M", "I", "T", " ", "o", "v", "e", "r">>
      [] s = "Access blocked" -> <<"A", "c", "c", "e", "s", "s", " ", "b", "l", "o", "c", "k", "e", "d">>

-----------------------------------------------------------------------------
(* Clocks *)

SecondsPerDay == 24 * 60 * 60

\* date.today() as a day number, datetime.now().time() as seconds of the day
today(w) == w \div SecondsPerDay
time_of_day(w) == w % SecondsPerDay

\* datetime.weekday(): 0 = Monday ... 6 = Sunday (day 0 is a Thursday)
weekday_of(w) == (today(w) + 3) % 7

-----------------------------------------------------------------------------
(* UserState and its codec *)

Users == {"alice", "bob"}

\* UserState.__init__
UserState0 ==
    [usage_minutes |-> 0, last_usage_date |-> None, blocked |-> FALSE,
     block_reason |-> "", paused |-> FALSE, paused_at |-> None,
     bonus_minutes |-> 0, warnings_sent |-> {}, is_idle |-> FALSE,
     pending_request |-> None]

\* Mutant of to_dict: the time of the pause is not written
to_dict_without_paused_at(s) ==
    [usage_minutes |-> s.usage_minutes, last_usage_date |-> s.last_usage_date,
     blocked |-> s.blocked, block_reason |-> s.block_reason,
     paused |-> s.paused,
     bonus_minutes |-> s.bonus_minutes,
     warnings_sent |-> SetToSeq(s.warnings_sent),
     pending_request |-> s.pending_request]

\* UserState.to_dict: the JSON object written for one user
to_dict(s) ==
    [usage_minutes |-> s.usage_minutes, last_usage_date |-> s.last_usage_date,
     blocked |-> s.blocked, block_reason |-> s.block_reason,
     paused |-> s.paused, paused_at |-> s.paused_at,
     bonus_minutes |-> s.bonus_minutes,
     warnings_sent |-> SetToSeq(s.warnings_sent),
     pending_request |-> s.pending_request]

\* dict.get(key, default) on a JSON object that may lack the key
dict_get(d, key, default) == IF key \in DOMAIN d THEN d[key] ELSE default

\* UserState.from_dict
from_dict(d) ==
    [usage_minutes |-> dict_get(d, "usage_minutes", 0),
     last_usage_date |-> dict_get(d, "last_usage_date", None),
     blocked |-> dict_get(d, "blocked", FALSE),
     block_reason |-> dict_get(d, "block_reason", ""),
     paused |-> dict_get(d, "paused", FALSE),
     paused_at |-> dict_get(d, "paused_at", None),
     bonus_minutes |-> dict_get(d, "bonus_minutes", 0),
     warnings_sent |-> Range(dict_get(d, "warnings_sent", <<>>)),
     is_idle |-> FALSE,
     pending_request |-> dict_get(d, "pending_request", None)]

\* The state file before the agent ever wrote it
NoFile == [file |-> "absent", data |-> EmptyMap]

\* Enforcer._save_state: the file after the write. open() failing leaves the
\* file as it was (the error is logged and swallowed).
_save_state(S, st) ==
    IF writable
    THEN [file |-> "ok", data |-> [u \in DOMAIN S |-> to_dict(S[u])]]
    ELSE st

\* Enforcer.get_user_state: the map after get-or-create of u
get_user_state(S, u) == IF u \in DOMAIN S THEN S ELSE Put(S, u, UserState0)

-----------------------------------------------------------------------------
(* Enforcer: schedule, rollover, limit *)

\* Mutant of is_within_schedule: a window that does not parse denies
is_within_schedule_fail_closed(schedule, w) ==
    LET schedule_str == IF weekday_of(w) >= 5 THEN schedule.weekend
                        ELSE schedule.weekday
        parts == split_hyphen(schedule_str)
        start_time == strptime_HM(strip(parts[1][1]))
        end_time == strptime_HM(strip(parts[1][2]))
    IN  IF parts = None THEN FALSE
        ELSE IF start_time = None \/ end_time = None THEN FALSE
        ELSE start_time[1] <= time_of_day(w) /\ time_of_day(w) <= end_time[1]

\* Enforcer.is_within_schedule at wall-clock instant w
is_within_schedule(schedule, w) ==
    LET schedule_str == IF weekday_of(w) >= 5 THEN schedule.weekend
                        ELSE schedule.weekday
        parts == split_hyphen(schedule_str)
        start_time == strptime_HM(strip(parts[1][1]))
        end_time == strptime_HM(strip(parts[1][2]))
    IN  IF parts = None THEN TRUE
        ELSE IF start_time = None \/ end_time = None THEN TRUE
        ELSE start_time[1] <= time_of_day(w) /\ time_of_day(w) <= end_time[1]

\* Mutant of rollover_check_user: the new day also lifts a block
rollover_check_user_unblocks(s, day) ==
    [s EXCEPT !.usage_minutes = 0, !.bonus_minutes = 0, !.warnings_sent = {},
              !.last_usage_date = Some(day), !.blocked = FALSE, !.block_reason = ""]

\* check_user's day rollover of one UserState (lines 157-161)
rollover_check_user(s, day) ==
    [s EXCEPT !.usage_minutes = 0, !.bonus_minutes = 0, !.warnings_sent = {},
              !.last_usage_date = Some(day)]

\* add_usage's day rollover of one UserState (lines 181-183)
rollover_add_usage(s, day) ==
    [s EXCEPT !.usage_minutes = 0, !.last_usage_date = Some(day)]

\* check_user's daily-limit test (lines 169-172)
limit_reached(s, daily_minutes) ==
    /\ daily_minutes > 0
    /\ s.usage_minutes >= daily_minutes + s.bonus_minutes

\* Mutant of check_decision: the daily limit is tested before the schedule
check_decision_limit_first(s, user_config, w) ==
    IF limit_reached(s, user_config.daily_minutes)
    THEN [allowed |-> FALSE, reason |-> REASON_LIMIT]
    ELSE IF ~is_within_schedule(user_config.schedule, w)
    THEN [allowed |-> FALSE, reason |-> REASON_SCHEDULE]
    ELSE [allowed |-> TRUE, reason |-> ""]

\* check_user's decision once the rollover is done (lines 164-174)
check_decision(s, user_config, w) ==
    IF ~is_within_schedule(user_config.schedule, w)
    THEN [allowed |-> FALSE, reason |-> REASON_SCHEDULE]
    ELSE IF limit_reached(s, user_config.daily_minutes)
    THEN [allowed |-> FALSE, reason |-> REASON_LIMIT]
    ELSE [allowed |-> TRUE, reason |-> ""]

\* Mutant of check_user_fn: the rollover is done only when the wall-clock
\* date is later than the stored one
check_user_forward_only(E, user_config) ==
    LET u == user_config.username
        S1 == get_user_state(E.us, u)
        rolled == \/ S1[u].last_usage_date = None
                  \/ /\ S1[u].last_usage_date # None
                     /\ S1[u].last_usage_date[1] < today(wall)
        S2 == IF rolled THEN [S1 EXCEPT ![u] = rollover_check_user(S1[u], today(wall))]
              ELSE S1
        st2 == IF rolled THEN _save_state(S2, E.st) ELSE E.st
    IN  [us |-> S2, st |-> st2, rolled |-> rolled,
         ret |-> check_decision(S2[u], user_config, wall)]

\* Enforcer.check_user on engine state E = [us, st]: the new engine state and
\* the returned pair
check_user_fn(E, user_config) ==
    LET u == user_config.username
        S1 == get_user_state(E.us, u)
        rolled == S1[u].last_usage_date # Some(today(wall))
        S2 == IF rolled THEN [S1 EXCEPT ![u] = rollover_check_user(S1[u], today(wall))]
              ELSE S1
        st2 == IF rolled THEN _save_state(S2, E.st) ELSE E.st
    IN  [us |-> S2, st |-> st2, rolled |-> rolled,
         ret |-> check_decision(S2[u], user_config, wall)]

\* Enforcer.add_usage
add_usage_fn(E, u, minutes) ==
    LET S1 == get_user_state(E.us, u)
        rolled == S1[u].last_usage_date # Some(today(wall))
        S2 == IF rolled THEN [S1 EXCEPT ![u] = rollover_add_usage(S1[u], today(wall))]
              ELSE S1
        S3 == [S2 EXCEPT ![u].usage_minutes = @ + minutes]
    IN  [us |-> S3, st |-> _save_state(S3, E.st), rolled |-> rolled]

\* Mutant of remaining_value: the bonus minutes are left out
remaining_value_no_bonus(s, daily_limit, day) ==
    IF s.last_usage_date # Some(day) THEN daily_limit
    ELSE Max(0, daily_limit - s.usage_minutes)

\* get_time_remaining's value for a positive daily_limit (lines 300-305)
remaining_value(s, daily_limit, day) ==
    IF s.last_usage_date # Some(day) THEN daily_limit
    ELSE Max(0, daily_limit + s.bonus_minutes - s.usage_minutes)

\* Enforcer.get_time_remaining: the map after get-or-create and the value
get_time_remaining_fn(S, u, daily_limit) ==
    IF daily_limit <= 0 THEN [us |-> S, ret |-> -1]
    ELSE LET S1 == get_user_state(S, u)
         IN  [us |-> S1, ret |-> remaining_value(S1[u], daily_limit, today(wall))]

\* Mutant of is_limit_block: the reason is searched without lower()
is_limit_block_case_sensitive(s) ==
    s.blocked /\ str_contains(Chars(s.block_reason), Chars("limit"))

\* add_bonus_time's test for a limit-triggered block (line 283)
is_limit_block(s) ==
    s.blocked /\ str_contains(lower(Chars(s.block_reason)), Chars("limit"))

\* Enforcer.add_bonus_time
add_bonus_time_fn(E, u, minutes) ==
    LET S1 == get_user_state(E.us, u)
        S2 == [S1 EXCEPT ![u].bonus_minutes = @ + minutes]
        S3 == IF is_limit_block(S2[u])
              THEN [S2 EXCEPT ![u].blocked = FALSE, ![u].block_reason = ""]
              ELSE S2
    IN  [us |-> S3, st |-> _save_state(S3, E.st)]

\* Mutant of unblock_user_fn: a block with the reason of the lock command is
\* left in place
unblock_user_keeps_lock(E, u) ==
    LET S1 == get_user_state(E.us, u)
        S2 == IF S1[u].block_reason = REASON_LOCK THEN S1
              ELSE [S1 EXCEPT ![u].blocked = FALSE, ![u].block_reason = ""]
    IN  [us |-> S2, st |-> _save_state(S2, E.st)]

\* Enforcer.unblock_user
unblock_user_fn(E, u) ==
    LET S1 == get_user_state(E.us, u)
        S2 == [S1 EXCEPT ![u].blocked = FALSE, ![u].block_reason = ""]
    IN  [us |-> S2, st |-> _save_state(S2, E.st)]

-----------------------------------------------------------------------------
(* Enforcer: forced logout, pause, warnings *)

\* What the two termination commands of force_logout can do: exit 0 ("ok"),
\* exit non-zero ("fail"), or raise (timeout, command missing: "raise").
\* pkill runs only after loginctl exited non-zero.
TermOutcomes ==
    {[loginctl |-> "ok", pkill |-> "unused"],
     [loginctl |-> "raise", pkill |-> "unused"],
     [loginctl |-> "fail", pkill |-> "ok"],
     [loginctl |-> "fail", pkill |-> "fail"],
     [loginctl |-> "fail", pkill |-> "raise"]}

\* force_logout's mutation of the UserState (lines 201-203)
block_state(s, reason) == [s EXCEPT !.blocked = TRUE, !.block_reason = reason]

\* force_logout's external effects, in the order the code performs them
\* (lines 204-232), and its return value
force_logout_effects(out) ==
    <<"save", "loginctl">> \o (IF out.loginctl = "fail" THEN <<"pkill">> ELSE <<>>)

\* Mutant of force_logout_result: the fallback's exit status is not looked at
force_logout_result_no_fallback(out) == out.loginctl = "ok"

force_logout_result(out) ==
    IF out.loginctl = "ok" THEN TRUE
    ELSE IF out.loginctl = "fail" THEN out.pkill = "ok"
    ELSE FALSE

\* Enforcer.force_logout
force_logout_fn(E, u, reason, out) ==
    LET S1 == get_user_state(E.us, u)
        S2 == [S1 EXCEPT ![u] = block_state(S1[u], reason)]
    IN  [us |-> S2, st |-> _save_state(S2, E.st),
         ret |-> force_logout_result(out),
         effects |-> force_logout_effects(out)]

\* Mutant of set_paused_fn: a repeated pause restarts the time of the pause
set_paused_restarts_pause(E, u, paused) ==
    LET S1 == get_user_state(E.us, u)
        S2 == IF paused
              THEN [S1 EXCEPT ![u].paused = TRUE, ![u].paused_at = Some(wall)]
              ELSE IF ~paused /\ S1[u].paused
              THEN [S1 EXCEPT ![u].paused = FALSE, ![u].paused_at = None]
              ELSE S1
    IN  [us |-> S2, st |-> _save_state(S2, E.st)]

\* Mutant of set_paused_fn: resuming leaves the time of the pause in place
set_paused_keeps_paused_at(E, u, paused) ==
    LET S1 == get_user_state(E.us, u)
        S2 == IF paused /\ ~S1[u].paused
              THEN [S1 EXCEPT ![u].paused = TRUE, ![u].paused_at = Some(wall)]
              ELSE IF ~paused /\ S1[u].paused
              THEN [S1 EXCEPT ![u].paused = FALSE]
              ELSE S1
    IN  [us |-> S2, st |-> _save_state(S2, E.st)]

\* Enforcer.set_paused
set_paused_fn(E, u, paused) ==
    LET S1 == get_user_state(E.us, u)
        S2 == IF paused /\ ~S1[u].paused
              THEN [S1 EXCEPT ![u].paused = TRUE, ![u].paused_at = Some(wall)]
              ELSE IF ~paused /\ S1[u].paused
              THEN [S1 EXCEPT ![u].paused = FALSE, ![u].paused_at = None]
              ELSE S1
    IN  [us |-> S2, st |-> _save_state(S2, E.st)]

\* Mutant of check_pause_auto_resume_fn: the pause ends only after more than
\* the delay
check_pause_auto_resume_late(E, u, auto_resume_minutes) ==
    LET S1 == get_user_state(E.us, u)
        E1 == [us |-> S1, st |-> E.st]
    IN  IF ~S1[u].paused \/ S1[u].paused_at = None
        THEN [us |-> S1, st |-> E.st, ret |-> FALSE]
        ELSE IF wall - S1[u].paused_at[1] > auto_resume_minutes * 60
        THEN [us |-> set_paused_fn(E1, u, FALSE).us,
              st |-> set_paused_fn(E1, u, FALSE).st, ret |-> TRUE]
        ELSE [us |-> S1, st |-> E.st, ret |-> FALSE]

\* Mutant of check_pause_auto_resume_fn: the pause ends a minute early
check_pause_auto_resume_early(E, u, auto_resume_minutes) ==
    LET S1 == get_user_state(E.us, u)
        E1 == [us |-> S1, st |-> E.st]
    IN  IF ~S1[u].paused \/ S1[u].paused_at = None
        THEN [us |-> S1, st |-> E.st, ret |-> FALSE]
        ELSE IF wall - S1[u].paused_at[1] >= (auto_resume_minutes - 1) * 60
        THEN [us |-> set_paused_fn(E1, u, FALSE).us,
              st |-> set_paused_fn(E1, u, FALSE).st, ret |-> TRUE]
        ELSE [us |-> S1, st |-> E.st, ret |-> FALSE]

\* Enforcer.check_pause_auto_resume
check_pause_auto_resume_fn(E, u, auto_resume_minutes) ==
    LET S1 == get_user_state(E.us, u)
        E1 == [us |-> S1, st |-> E.st]
    IN  IF ~S1[u].paused \/ S1[u].paused_at = None
        THEN [us |-> S1, st |-> E.st, ret |-> FALSE]
        ELSE IF wall - S1[u].paused_at[1] >= auto_resume_minutes * 60
        THEN [us |-> set_paused_fn(E1, u, FALSE).us,
              st |-> set_paused_fn(E1, u, FALSE).st, ret |-> TRUE]
        ELSE [us |-> S1, st |-> E.st, ret |-> FALSE]

\* Mutant of get_warnings_to_send_fn: a threshold is due only when less than
\* it remains
get_warnings_to_send_strict(S, u, daily_limit, warning_thresholds) ==
    IF daily_limit <= 0 THEN <<>>
    ELSE LET r == get_time_remaining_fn(S, u, daily_limit)
             keep(t) == t \notin r.us[u].warnings_sent /\ r.ret < t
         IN  SelectSeq(warning_thresholds, keep)

\* Enforcer.get_warnings_to_send: the thresholds to send, in list order
get_warnings_to_send_fn(S, u, daily_limit, warning_thresholds) ==
    IF daily_limit <= 0 THEN <<>>
    ELSE LET r == get_time_remaining_fn(S, u, daily_limit)
             keep(t) == t \notin r.us[u].warnings_sent /\ r.ret <= t
         IN  SelectSeq(warning_thresholds, keep)

\* Mutant of mark_warning_sent_fn: the mark is kept in memory only
mark_warning_sent_unsaved(E, u, threshold) ==
    LET S1 == get_user_state(E.us, u)
        S2 == [S1 EXCEPT ![u].warnings_sent = @ \cup {threshold}]
    IN  [us |-> S2, st |-> E.st]

\* Enforcer.mark_warning_sent
mark_warning_sent_fn(E, u, threshold) ==
    LET S1 == get_user_state(E.us, u)
        S2 == [S1 EXCEPT ![u].warnings_sent = @ \cup {threshold}]
    IN  [us |-> S2, st |-> _save_state(S2, E.st)]

-----------------------------------------------------------------------------
(* Login gate *)

\* Mutant of check_login_allowed: a state file that cannot be read or parsed
\* denies the login
check_login_allowed_fail_closed(st, username) ==
    IF st.file = "absent" THEN [allowed |-> TRUE, reason |-> ""]
    ELSE IF st.file # "ok" THEN [allowed |-> FALSE, reason |-> "Access blocked"]
    ELSE LET user_data == dict_get(st.data, username, EmptyMap)
         IN  IF dict_get(user_data, "blocked", FALSE)
             THEN [allowed |-> FALSE,
                   reason |-> dict_get(user_data, "block_reason", "Access blocked")]
             ELSE [allowed |-> TRUE, reason |-> ""]

\* enforcer.check_login_allowed on the state file st
check_login_allowed(st, username) ==
    IF st.file = "absent" THEN [allowed |-> TRUE, reason |-> ""]
    ELSE IF st.file # "ok" THEN [allowed |-> TRUE, reason |-> ""]
    ELSE LET user_data == dict_get(st.data, username, EmptyMap)
         IN  IF dict_get(user_data, "blocked", FALSE)
             THEN [allowed |-> FALSE,
                   reason |-> dict_get(user_data, "block_reason", "Access blocked")]
             ELSE [allowed |-> TRUE, reason |-> ""]

\* pam_check.main: the exit status for PAM
pam_check_main(st, username) ==
    IF check_login_allowed(st, username).allowed THEN 0 ELSE 1

-----------------------------------------------------------------------------
(* Configuration of the agent *)

W_ALL_DAY == <<"0", "0", ":", "0", "0", "-", "2", "3", ":", "5", "9">>
W_SCHOOL == <<"0", "9", ":", "0", "0", "-", "1", "7", ":", "0", "0">>
W_WEEKEND == <<"1", "0", ":", "0", "0", "-", "2", "0", ":", "0", "0">>

\* Config.users, in file order
ConfigUsers ==
    <<[username |-> "alice", daily_minutes |-> 2,
       schedule |-> [weekday |-> W_SCHOOL, weekend |-> W_WEEKEND],
       warnings |-> <<2, 1>>],
      [username |-> "bob", daily_minutes |-> 0,
       schedule |-> [weekday |-> W_ALL_DAY, weekend |-> W_ALL_DAY],
       warnings |-> <<2, 1>>]>>

\* Config.get_user
get_user(username) ==
    LET hits == {i \in DOMAIN ConfigUsers : ConfigUsers[i].username = username}
    IN  IF hits = {} THEN None
        ELSE Some(ConfigUsers[CHOOSE i \in hits : \A j \in hits : i <= j])

\* ActivityConfig.pause_auto_resume
PAUSE_AUTO_RESUME == 30

-----------------------------------------------------------------------------
(* Environment *)

\* Instants the wall clock is set to: two times of day on each day. Day 1 is
\* Friday 1970-01-02, day 2 a Saturday.
ClockTimes == {8 * 3600 + 59 * 60, 12 * 3600}
ClockInstants == {d * SecondsPerDay + t : d \in 1..MaxDay, t \in ClockTimes}

\* arg and ret are records in every call; Void stands for no arguments or no value
Void == [void |-> TRUE]
Call(op, user, arg, ret) == [op |-> op, user |-> user, arg |-> arg, ret |-> ret]

\* The wall clock moves (time passes, or an administrator sets it)
SetClock ==
    /\ \E w \in ClockInstants : w # wall /\ wall' = w
    /\ last' = Call("clock", "", Void, Void)
    /\ UNCHANGED <<tamper_detected, last_check, pc, warned, user_states, store, writable, mono, logged_in, last_logged_in,
                   td_last, td_span, gate_due>>

\* The state file becomes unwritable (read-only file system, permissions) or
\* writable again
SetWritable ==
    /\ writable' = ~writable
    /\ last' = Call("writable", "", Void, Void)
    /\ UNCHANGED <<tamper_detected, last_check, pc, warned, user_states, store, wall, mono, logged_in, last_logged_in,
                   td_last, td_span, gate_due>>

-----------------------------------------------------------------------------
(* Calls of the Enforcer's public methods *)

Engine == [us |-> user_states, st |-> store]

check_user(user_config) ==
    LET r == check_user_fn(Engine, user_config)
    IN  /\ user_states' = r.us
        /\ store' = r.st
        /\ last' = Call("check_user", user_config.username,
                        [daily_minutes |-> user_config.daily_minutes,
                         schedule |-> user_config.schedule,
                         rolled |-> r.rolled], r.ret)
        /\ UNCHANGED <<tamper_detected, last_check, pc, warned, writable, wall, mono, logged_in, last_logged_in,
                       td_last, td_span, gate_due>>

add_usage(u, minutes) ==
    LET r == add_usage_fn(Engine, u, minutes)
    IN  /\ r.us[u].usage_minutes <= MaxUsage
        /\ user_states' = r.us
        /\ store' = r.st
        /\ last' = Call("add_usage", u, [minutes |-> minutes, rolled |-> r.rolled], Void)
        /\ UNCHANGED <<tamper_detected, last_check, pc, warned, writable, wall, mono, logged_in, last_logged_in,
                       td_last, td_span, gate_due>>

get_time_remaining(u, daily_limit) ==
    LET r == get_time_remaining_fn(user_states, u, daily_limit)
    IN  /\ user_states' = r.us
        /\ last' = Call("get_time_remaining", u, [daily_limit |-> daily_limit],
                        [value |-> r.ret])
        /\ UNCHANGED <<tamper_detected, last_check, pc, warned, store, writable, wall, mono, logged_in, last_logged_in,
                       td_last, td_span, gate_due>>

add_bonus_time(u, minutes) ==
    LET r == add_bonus_time_fn(Engine, u, minutes)
    IN  /\ r.us[u].bonus_minutes <= MaxBonus
        /\ user_states' = r.us
        /\ store' = r.st
        /\ last' = Call("add_bonus_time", u, [minutes |-> minutes], Void)
        /\ UNCHANGED <<tamper_detected, last_check, pc, warned, writable, wall, mono, logged_in, last_logged_in,
                       td_last, td_span, gate_due>>

force_logout(u, reason) ==
    \E out \in TermOutcomes :
        LET r == force_logout_fn(Engine, u, reason, out)
        IN  /\ user_states' = r.us
            /\ store' = r.st
            /\ logged_in' = IF r.ret THEN logged_in \ {u} ELSE logged_in
            /\ last' = Call("force_logout", u,
                            [reason |-> reason, out |-> out, effects |-> r.effects],
                            [ok |-> r.ret])
            /\ UNCHANGED <<tamper_detected, last_check, pc, warned, writable, wall, mono, last_logged_in, td_last, td_span,
                           gate_due>>

unblock_user(u) ==
    LET r == unblock_user_fn(Engine, u)
    IN  /\ user_states' = r.us
        /\ store' = r.st
        /\ last' = Call("unblock_user", u, Void, Void)
        /\ UNCHANGED <<tamper_detected, last_check, pc, warned, writable, wall, mono, logged_in, last_logged_in,
                       td_last, td_span, gate_due>>

-----------------------------------------------------------------------------
(* The engine driven through its public methods *)

DailyLimits == {-1, 0, 2}
MinuteInputs == {1, 2}

Init ==
    /\ user_states = EmptyMap
    /\ store = NoFile
    /\ writable = TRUE
    /\ wall = 1 * SecondsPerDay + 12 * 3600
    /\ mono = 0
    /\ logged_in = {}
    /\ last_logged_in = {}
    /\ td_last = None
    /\ td_span = None
    /\ gate_due = {}
    /\ warned = {}
    /\ pc = None
    /\ last_check = 1 * SecondsPerDay + 12 * 3600
    /\ tamper_detected = FALSE
    /\ last = Call("init", "", Void, Void)

\* Specification Spec: day accounting (rollover, limit, remaining time)
Next ==
    \/ SetClock
    \/ \E i \in DOMAIN ConfigUsers : check_user(ConfigUsers[i])
    \/ \E u \in Users, m \in MinuteInputs : add_usage(u, m)
    \/ \E u \in Users, d \in DailyLimits : get_time_remaining(u, d)
    \/ \E u \in Users : add_bonus_time(u, 1)

Spec == Init /\ [][Next]_vars

\* The UserState of v as any reader sees it: a user without a record has the defaults
View(S, v) == IF v \in DOMAIN S THEN S[v] ELSE UserState0

(* C1: the first check_user or add_usage call that observes a date other than
   the stored last_usage_date resets usage_minutes, bonus_minutes and
   warnings_sent together (add_usage then adds its minutes) and stores today's
   date; a call that observes the stored date resets nothing. Stated for a
   user whose record holds a date, so that the date observed is a new day. *)
C1_RolloverResetsTogether ==
    [][ \A u \in Users :
          (/\ last'.op \in {"check_user", "add_usage"}
           /\ last'.user = u
           /\ View(user_states, u).last_usage_date # None) =>
            LET pre == View(user_states, u)
                post == user_states'[u]
                added == IF last'.op = "add_usage" THEN last'.arg.minutes ELSE 0
            IN  IF pre.last_usage_date # Some(today(wall))
                THEN /\ post.usage_minutes = added
                     /\ post.bonus_minutes = 0
                     /\ post.warnings_sent = {}
                     /\ post.last_usage_date = Some(today(wall))
                ELSE /\ post.usage_minutes = pre.usage_minutes + added
                     /\ post.bonus_minutes = pre.bonus_minutes
                     /\ post.warnings_sent = pre.warnings_sent
                     /\ post.last_usage_date = pre.last_usage_date
      ]_vars

(* C2: check_user decides in a fixed order: outside the schedule window it
   answers (false, "Outside allowed hours") whatever the usage; else it answers
   (false, "Daily time limit reached") iff daily_minutes > 0 and usage_minutes
   >= daily_minutes + bonus_minutes; else (true, ""). With daily_minutes = 0
   the limit never denies. *)
C2_CheckUserOrder ==
    last.op = "check_user" =>
        LET cfg == get_user(last.user)[1]
            s == user_states[last.user]
            outside == ~is_within_schedule(cfg.schedule, wall)
            over == /\ cfg.daily_minutes > 0
                    /\ s.usage_minutes >= cfg.daily_minutes + s.bonus_minutes
        IN  /\ outside => last.ret = [allowed |-> FALSE, reason |-> "Outside allowed hours"]
            /\ (~outside /\ over) =>
                   last.ret = [allowed |-> FALSE, reason |-> "Daily time limit reached"]
            /\ (~outside /\ ~over) => last.ret = [allowed |-> TRUE, reason |-> ""]
            /\ cfg.daily_minutes = 0 => last.ret.reason # "Daily time limit reached"

\* C2's case: a user over the limit checked outside the window is denied for the schedule
C2_Witness ==
    /\ last.op = "check_user"
    /\ last.ret = [allowed |-> FALSE, reason |-> "Outside allowed hours"]
    /\ last.arg.daily_minutes > 0
    /\ user_states[last.user].usage_minutes
         >= last.arg.daily_minutes + user_states[last.user].bonus_minutes

(* C4: get_time_remaining(daily_limit) returns -1 when daily_limit <= 0,
   daily_limit when last_usage_date is not today, and otherwise
   max(0, daily_limit + bonus_minutes - usage_minutes); it never returns less
   than -1 and changes no persisted field. *)
C4_TimeRemaining ==
    [][ last'.op = "get_time_remaining" =>
          LET d == last'.arg.daily_limit
              s == View(user_states, last'.user)
              expected == IF d <= 0 THEN -1
                          ELSE IF s.last_usage_date # Some(today(wall)) THEN d
                          ELSE Max(0, d + s.bonus_minutes - s.usage_minutes)
          IN  /\ last'.ret.value = expected
              /\ last'.ret.value >= -1
              /\ store' = store
              /\ \A v \in Users : View(user_states', v) = View(user_states, v)
      ]_vars

\* C4's case: usage at the limit with bonus time granted leaves the bonus as remaining time
C4_Witness ==
    /\ last.op = "get_time_remaining"
    /\ last.arg.daily_limit = 2
    /\ user_states[last.user].usage_minutes = 2
    /\ user_states[last.user].bonus_minutes = 1
    /\ last.ret.value = 1

-----------------------------------------------------------------------------
\* Specification SpecBlock: forced logout and unblocking, with a state file
\* that may refuse writes
NextBlock ==
    \/ SetWritable
    \/ \E u \in Users, reason \in Reasons : force_logout(u, reason)
    \/ \E u \in Users : unblock_user(u)

SpecBlock == Init /\ [][NextBlock]_vars

\* Specification SpecBonus: bonus time granted to blocked and unblocked users
NextBonus ==
    \/ \E u \in Users, reason \in Reasons : force_logout(u, reason)
    \/ \E u \in Users : unblock_user(u)
    \/ \E u \in Users : add_bonus_time(u, 1)

SpecBonus == Init /\ [][NextBonus]_vars

\* What the login gate would read for u: the stored record, absent fields defaulted
Stored(st, u) == from_dict(dict_get(st.data, u, EmptyMap))

\* force_logout's contract apart from the store's content
ForceLogoutContract ==
    LET u == last.user
        out == last.arg.out
        ran == last.arg.effects
    IN  /\ user_states[u].blocked
        /\ user_states[u].block_reason = last.arg.reason
        \* the store write comes first, then loginctl, then at most one fallback
        /\ ran[1] = "save" /\ ran[2] = "loginctl"
        /\ Len(ran) <= 3
        /\ Len(ran) = 3 => (ran[3] = "pkill" /\ out.loginctl = "fail")
        /\ last.ret.ok = (\/ out.loginctl = "ok"
                       \/ (out.loginctl = "fail" /\ Len(ran) = 3 /\ out.pkill = "ok"))

BlockedInStore(u) ==
    /\ store.file = "ok"
    /\ u \in DOMAIN store.data
    /\ Stored(store, u).blocked
    /\ Stored(store, u).block_reason = user_states[u].block_reason

(* C5 as stated: force_logout sets blocked and block_reason and writes the store
   before any termination attempt, for every outcome of the termination;
   it returns true iff the preferred method or, failing that, the single
   fallback succeeded; blocked is true in memory and in the store after the
   call in all cases. *)
C5_ForceLogoutAlwaysStored ==
    last.op = "force_logout" => (ForceLogoutContract /\ BlockedInStore(last.user))

(* C5 amended: as above, but blocked is true in the store after the call
   whenever the state file could be written; when the write fails the file
   keeps its previous content and blocked is true in memory only. *)
C5_ForceLogout ==
    /\ [](last.op = "force_logout" =>
            /\ ForceLogoutContract
            /\ writable => BlockedInStore(last.user))
    /\ [][(last'.op = "force_logout" /\ ~writable) => store' = store]_vars

\* C5's case: both termination commands failed and the block is stored
C5_Witness ==
    /\ last.op = "force_logout"
    /\ last.arg.out = [loginctl |-> "fail", pkill |-> "fail"]
    /\ ~last.ret.ok
    /\ BlockedInStore(last.user)

\* The block reasons of the model that contain "limit" in some letter case
LimitReasons == {"Daily time limit reached", "Time LIMIT over"}

(* C7: add_bonus_time(u, m) adds m to bonus_minutes and clears blocked and
   block_reason iff the user was blocked with a reason containing "limit" in
   any letter case; a block with another reason stays, reason unchanged. *)
C7_BonusLiftsLimitBlock ==
    [][ last'.op = "add_bonus_time" =>
          LET pre == View(user_states, last'.user)
              post == user_states'[last'.user]
          IN  /\ post.bonus_minutes = pre.bonus_minutes + last'.arg.minutes
              /\ IF pre.blocked /\ pre.block_reason \in LimitReasons
                 THEN ~post.blocked /\ post.block_reason = ""
                 ELSE /\ post.blocked = pre.blocked
                      /\ post.block_reason = pre.block_reason
      ]_vars

\* C7's case: bonus time was granted and a manual lock is still in place
C7_Witness ==
    /\ last.op = "add_bonus_time"
    /\ user_states[last.user].blocked
    /\ user_states[last.user].block_reason = "Remote lock command"
    /\ user_states[last.user].bonus_minutes = 1

-----------------------------------------------------------------------------
(* Schedule evaluation: is_within_schedule at second resolution *)

\* Days the schedule is evaluated on: Friday 2, Saturday 3, Sunday 4 and
\* Monday 5 January 1970
ScheduleDays == 1..4

\* Seconds of the day around the bounds of the configured windows
ScheduleTimes ==
    {0, 30,
     8 * 3600 + 59 * 60, 8 * 3600 + 59 * 60 + 59,
     9 * 3600, 9 * 3600 + 30, 9 * 3600 + 59,
     12 * 3600,
     17 * 3600, 17 * 3600 + 30, 17 * 3600 + 59, 17 * 3600 + 60,
     20 * 3600, 20 * 3600 + 1,
     23 * 3600 + 59 * 60, 23 * 3600 + 59 * 60 + 30}

\* datetime.now() returns any of these instants
SetClockSecond ==
    /\ \E d \in ScheduleDays, t \in ScheduleTimes :
          /\ d * SecondsPerDay + t # wall
          /\ wall' = d * SecondsPerDay + t
    /\ last' = Call("clock", "", Void, Void)
    /\ UNCHANGED <<tamper_detected, last_check, pc, warned, user_states, store, writable, mono, logged_in, last_logged_in,
                   td_last, td_span, gate_due>>

\* Enforcer.is_within_schedule(schedule) for the schedule of a configured user
is_within_schedule_call(user_config) ==
    /\ last' = Call("is_within_schedule", user_config.username,
                    [schedule |-> user_config.schedule],
                    [value |-> is_within_schedule(user_config.schedule, wall)])
    /\ UNCHANGED <<tamper_detected, last_check, pc, warned, user_states, store, writable, wall, mono, logged_in,
                   last_logged_in, td_last, td_span, gate_due>>

NextSchedule ==
    \/ SetClockSecond
    \/ \E i \in DOMAIN ConfigUsers : is_within_schedule_call(ConfigUsers[i])

SpecSchedule == Init /\ [][NextSchedule]_vars

\* The bounds of the configured windows, in minutes of the day
WindowMinutes(window) ==
    CASE window = W_SCHOOL -> [start |-> 9 * 60, end |-> 17 * 60]
      [] window = W_WEEKEND -> [start |-> 10 * 60, end |-> 20 * 60]
      [] window = W_ALL_DAY -> [start |-> 0, end |-> 23 * 60 + 59]

\* C3: for a well-formed window, is_within_schedule is true iff the
\* hour:minute of the current instant lies in [start, end], both ends
\* inclusive, using the weekend window on Saturday and Sunday and the weekday
\* window on every other day; every instant of the end minute is allowed.
C3_InclusiveWindow ==
    last.op = "is_within_schedule" =>
        LET day_name == <<"Thu", "Fri", "Sat", "Sun", "Mon", "Tue", "Wed">>
                            [((wall \div SecondsPerDay) % 7) + 1]
            window == IF day_name \in {"Sat", "Sun"}
                      THEN last.arg.schedule.weekend
                      ELSE last.arg.schedule.weekday
            minute == (wall % SecondsPerDay) \div 60
            bounds == WindowMinutes(window)
        IN  last.ret.value = (bounds.start <= minute /\ minute <= bounds.end)


-----------------------------------------------------------------------------
(* The agent: driver tick, remote commands, and logins through the gate *)

\* KidlockAgent._check_and_send_warnings: the thresholds to send are marked
\* one by one when the notifier delivered the warning
RECURSIVE mark_warnings_sent(_, _, _)
mark_warnings_sent(E, u, thresholds) ==
    IF thresholds = <<>> THEN E
    ELSE LET m == mark_warning_sent_fn(E, u, Head(thresholds))
         IN  mark_warnings_sent([us |-> m.us, st |-> m.st], u, Tail(thresholds))

_check_and_send_warnings(E, user_config, notify_ok) ==
    LET u == user_config.username
        daily_limit == user_config.daily_minutes
        S1 == get_user_state(E.us, u)
        to_send == get_warnings_to_send_fn(S1, u, daily_limit, user_config.warnings)
    IN  IF daily_limit <= 0 THEN E
        ELSE IF notify_ok THEN mark_warnings_sent([us |-> S1, st |-> E.st], u, to_send)
        ELSE [us |-> S1, st |-> E.st]

\* The body of the loop of _check_and_enforce for one configured user
\* (main.py lines 259-295). A carries the engine state, the users whose
\* forced logout did and did not terminate the session, and the warnings
\* (user, threshold) delivered and marked as sent.
enforce_user(A, user_config, observed, outs, notify_ok) ==
    LET u == user_config.username
        S0 == get_user_state(A.us, u)
        E0 == [us |-> S0, st |-> A.st]
        p == check_pause_auto_resume_fn(E0, u, PAUSE_AUTO_RESUME)
        E1 == IF S0[u].paused THEN [us |-> p.us, st |-> p.st] ELSE E0
        c == check_user_fn(E1, user_config)
        E2 == [us |-> c.us, st |-> c.st]
        f == force_logout_fn(E2, u, c.ret.reason, outs[u])
    IN  IF u \notin observed
        THEN [us |-> E2.us, st |-> E2.st, failed |-> A.failed,
              terminated |-> A.terminated, delivered |-> A.delivered]
        ELSE IF ~c.ret.allowed
        THEN [us |-> f.us, st |-> f.st,
              failed |-> IF f.ret THEN A.failed ELSE A.failed \cup {u},
              terminated |-> IF f.ret THEN A.terminated \cup {u} ELSE A.terminated,
              delivered |-> A.delivered]
        ELSE LET E3 == unblock_user_fn(E2, u)
                 w == _check_and_send_warnings(E3, user_config, notify_ok)
                 to_send == get_warnings_to_send_fn(E3.us, u, user_config.daily_minutes,
                                                    user_config.warnings)
             IN  [us |-> w.us, st |-> w.st, failed |-> A.failed,
                  terminated |-> A.terminated,
                  delivered |-> IF notify_ok
                                THEN A.delivered \cup {<<u, t>> : t \in Range(to_send)}
                                ELSE A.delivered]

\* for user_config in self.config.users, from position i on
RECURSIVE enforce_users(_, _, _, _, _)
enforce_users(A, i, observed, outs, notify_ok) ==
    IF i > Len(ConfigUsers) THEN A
    ELSE CHOOSE R \in {enforce_users(B, i + 1, observed, outs, notify_ok) :
                          B \in {enforce_user(A, ConfigUsers[i], observed, outs,
                                               notify_ok)}} : TRUE

\* The outcomes of the termination commands drawn in the agent's steps: the
\* preferred method works, or it and the fallback both exit non-zero
AgentTermOutcomes ==
    {out \in TermOutcomes : out.loginctl = "ok" \/ out.pkill = "fail"}

\* Enforcer.get_logged_in_users: the output of who, or the empty set when the
\* command fails
get_logged_in_users(who_ok) == IF who_ok THEN logged_in ELSE {}

\* The entry of the history warned for a warning of threshold t marked as
\* sent for user u now: the user, the threshold, the calendar day, and
\* whether the same warning was marked before on that day
Warned(u, t) ==
    [user |-> u, threshold |-> t, day |-> today(wall),
     again |-> \E h \in warned : h.user = u /\ h.threshold = t /\ h.day = today(wall)]

\* The users for whom the tick's check_pause_auto_resume returns True and
\* pause_changed (paused false, auto true) is published (main.py lines 273-278)
auto_resumed(E) ==
    {u \in Range([i \in DOMAIN ConfigUsers |-> ConfigUsers[i].username]) :
        LET S0 == get_user_state(E.us, u)
        IN  /\ S0[u].paused
            /\ check_pause_auto_resume_fn([us |-> S0, st |-> E.st], u,
                                          PAUSE_AUTO_RESUME).ret}

\* KidlockAgent._check_and_enforce: one driver tick
_check_and_enforce ==
    \E who_ok \in BOOLEAN, notify_ok \in BOOLEAN :
      \E outs \in [get_logged_in_users(who_ok) -> AgentTermOutcomes] :
        \E A \in {enforce_users([us |-> user_states, st |-> store, failed |-> {},
                                   terminated |-> {}, delivered |-> {}],
                                  1, get_logged_in_users(who_ok), outs, notify_ok)} :
            /\ user_states' = A.us
            /\ store' = A.st
            /\ logged_in' = logged_in \ A.terminated
            /\ last_logged_in' = get_logged_in_users(who_ok)
            /\ gate_due' = gate_due \cup A.failed
            /\ warned' = warned \cup {Warned(d[1], d[2]) : d \in A.delivered}
            /\ last' = Call("_check_and_enforce", "",
                            [observed |-> get_logged_in_users(who_ok)],
                            [forced |-> A.failed \cup A.terminated,
                             resumed |-> auto_resumed(Engine)])
            /\ UNCHANGED <<tamper_detected, last_check, pc, writable, wall, mono, td_last, td_span>>


\* The users a command applies to: the named one, or every configured user
\* when the command names none ("")
command_targets(username) ==
    IF username # ""
    THEN (IF get_user(username) # None THEN <<username>> ELSE <<>>)
    ELSE [i \in DOMAIN ConfigUsers |-> ConfigUsers[i].username]

\* force_logout of each target in turn with reason "Remote lock command"
RECURSIVE lock_users(_, _, _)
lock_users(A, targets, outs) ==
    IF targets = <<>> THEN A
    ELSE LET u == Head(targets)
             f == force_logout_fn([us |-> A.us, st |-> A.st], u, REASON_LOCK, outs[u])
         IN  lock_users([us |-> f.us, st |-> f.st,
                         failed |-> IF f.ret THEN A.failed ELSE A.failed \cup {u},
                         terminated |-> IF f.ret THEN A.terminated \cup {u}
                                        ELSE A.terminated],
                        Tail(targets), outs)

\* KidlockAgent._on_command, action "lock" (main.py lines 62-70)
_on_command_lock(username) ==
    \E outs \in [Range(command_targets(username)) -> AgentTermOutcomes] :
        LET A == lock_users([us |-> user_states, st |-> store, failed |-> {},
                             terminated |-> {}], command_targets(username), outs)
        IN  /\ user_states' = A.us
            /\ store' = A.st
            /\ logged_in' = logged_in \ A.terminated
            /\ gate_due' = gate_due \cup A.failed
            /\ last' = Call("lock", username, Void, Void)
            /\ UNCHANGED <<tamper_detected, last_check, pc, warned, writable, wall, mono, last_logged_in, td_last, td_span>>

\* unblock_user of each target in turn
RECURSIVE unblock_users(_, _)
unblock_users(E, targets) ==
    IF targets = <<>> THEN E
    ELSE unblock_users(unblock_user_fn(E, Head(targets)), Tail(targets))

\* KidlockAgent._on_command, action "unlock" (main.py lines 72-78): a named
\* user is unblocked whether configured or not
_on_command_unlock(username) ==
    LET targets == IF username # "" THEN <<username>> ELSE command_targets("")
        E == unblock_users(Engine, targets)
    IN  /\ user_states' = E.us
        /\ store' = E.st
        /\ gate_due' = gate_due \ Range(targets)
        /\ last' = Call("unlock", username, Void, Void)
        /\ UNCHANGED <<tamper_detected, last_check, pc, warned, writable, wall, mono, logged_in, last_logged_in,
                       td_last, td_span>>

\* add_usage for each configured user that is logged in, not paused and not
\* idle; idle users are only marked idle (main.py lines 370-386)
RECURSIVE account_users(_, _, _, _, _)
account_users(E, i, observed, idle, elapsed_minutes) ==
    IF i > Len(ConfigUsers) THEN E
    ELSE LET u == ConfigUsers[i].username
             S1 == get_user_state(E.us, u)
             is_idle == u \in idle
             S2 == [S1 EXCEPT ![u].is_idle = is_idle]
             a == add_usage_fn([us |-> S2, st |-> E.st], u, elapsed_minutes)
             E2 == IF u \notin observed THEN E
                   ELSE IF S1[u].paused THEN [us |-> S1, st |-> E.st]
                   ELSE IF is_idle THEN [us |-> S2, st |-> E.st]
                   ELSE [us |-> a.us, st |-> a.st]
         IN  account_users(E2, i + 1, observed, idle, elapsed_minutes)

\* KidlockAgent._account_usage when at least one whole minute has elapsed
\* since the previous call; idle holds the users whose session is idle or locked
_account_usage(elapsed_minutes) ==
    \E who_ok \in BOOLEAN, idle \in SUBSET logged_in :
        LET E == account_users(Engine, 1, get_logged_in_users(who_ok), idle,
                               elapsed_minutes)
        IN  /\ elapsed_minutes >= 1
            /\ \A u \in DOMAIN E.us : E.us[u].usage_minutes <= MaxUsage
            /\ user_states' = E.us
            /\ store' = E.st
            /\ last_check' = wall
            /\ last' = Call("_account_usage", "", Void, Void)
            /\ UNCHANGED <<tamper_detected, pc, warned, writable, wall, mono, logged_in, last_logged_in,
                           td_last, td_span, gate_due>>

\* pam_exec runs pam_check for a login of u: the session opens only when the
\* gate allows it
LoginAttempt(u) ==
    LET r == check_login_allowed(store, u)
    IN  /\ logged_in' = IF pam_check_main(store, u) = 0 THEN logged_in \cup {u}
                        ELSE logged_in
        /\ last' = Call("login", u, Void, r)
        /\ UNCHANGED <<tamper_detected, last_check, pc, warned, user_states, store, writable, wall, mono, last_logged_in,
                       td_last, td_span, gate_due>>

\* The user ends the session
Logout(u) ==
    /\ u \in logged_in
    /\ logged_in' = logged_in \ {u}
    /\ last' = Call("logout", u, Void, Void)
    /\ UNCHANGED <<tamper_detected, last_check, pc, warned, user_states, store, writable, wall, mono, last_logged_in,
                   td_last, td_span, gate_due>>

\* Users who open sessions, and the targets of remote commands
LoginUsers == {"alice"}
CommandUsers == {"alice"}

NextAgent ==
    \/ _check_and_enforce
    \/ _account_usage(1)
    \/ \E t \in CommandUsers : _on_command_lock(t)
    \/ \E t \in CommandUsers : _on_command_unlock(t)
    \/ \E u \in LoginUsers : LoginAttempt(u)
    \/ \E u \in LoginUsers : Logout(u)

SpecAgent == Init /\ [][NextAgent]_vars

\* C6: after a force_logout whose termination attempt failed, every later
\* login attempt of that user is denied by the login gate until an unlock
\* command is applied, also after driver ticks that ran while the user was
\* still logged in. gate_due holds the users with a failed termination and no
\* unlock command since.
C6_BlockSurvivesFailedTermination ==
    (last.op = "login" /\ last.user \in gate_due) => ~last.ret.allowed


-----------------------------------------------------------------------------
(* The login gate on every kind of state file *)

\* State files the gate can meet that the running agent did not write: none,
\* one that cannot be opened, one that does not parse (for instance read in
\* the middle of a write), one without users, and records written by hand or
\* by another version that lack a field
ExternalFiles ==
    {NoFile,
     [file |-> "unreadable", data |-> EmptyMap],
     [file |-> "corrupt", data |-> EmptyMap],
     [file |-> "ok", data |-> EmptyMap],
     [file |-> "ok", data |-> Put(EmptyMap, "alice", [blocked |-> TRUE])],
     [file |-> "ok", data |-> Put(EmptyMap, "alice", [blocked |-> FALSE])],
     [file |-> "ok", data |-> Put(EmptyMap, "bob", [block_reason |-> REASON_LOCK])]}

\* The state file is replaced, removed or damaged from outside the agent
InstallStore(f) ==
    /\ f # store
    /\ store' = f
    /\ last' = Call("install", "", Void, Void)
    /\ UNCHANGED <<tamper_detected, last_check, pc, warned, user_states, writable, wall, mono, logged_in, last_logged_in,
                   td_last, td_span, gate_due>>

\* Specification SpecGate: logins through the gate while the agent blocks and
\* unblocks users and the state file changes under it
NextGate ==
    \/ \E f \in ExternalFiles : InstallStore(f)
    \/ \E u \in Users, reason \in Reasons : force_logout(u, reason)
    \/ \E u \in Users : unblock_user(u)
    \/ \E u \in Users : LoginAttempt(u)

SpecGate == Init /\ [][NextGate]_vars

\* The verdict the gate owes for user u on state file st
GateVerdict(st, u) ==
    LET has_record == st.file = "ok" /\ u \in DOMAIN st.data
        denied == /\ has_record
                  /\ "blocked" \in DOMAIN st.data[u]
                  /\ st.data[u].blocked = TRUE
    IN  [denied |-> denied,
         reason_stored |-> denied /\ "block_reason" \in DOMAIN st.data[u],
         reason |-> IF denied /\ "block_reason" \in DOMAIN st.data[u]
                    THEN st.data[u].block_reason ELSE ""]

\* C8: check_login_allowed(u) returns (false, stored block_reason) iff the
\* state file exists, is readable, parses and holds a record for u with
\* blocked = true; in every other case it returns (true, ""); it always
\* returns a verdict and never modifies the store.
C8_LoginGate ==
    /\ [](last.op = "login" =>
             LET v == GateVerdict(store, last.user)
             IN  /\ last.ret.allowed = ~v.denied
                 /\ last.ret.allowed => last.ret.reason = ""
                 /\ v.reason_stored => last.ret.reason = v.reason
                 /\ last.ret \in [allowed : BOOLEAN,
                                  reason : Reasons \cup {"", "Access blocked"}])
    /\ [][last'.op = "login" => store' = store]_vars

\* A login denied with the reason the agent stored, for a user whose earlier
\* login the gate allowed
C8_Witness ==
    /\ last.op = "login"
    /\ ~last.ret.allowed
    /\ last.ret.reason = REASON_LOCK
    /\ store.file = "ok"
    /\ last.user \in logged_in


-----------------------------------------------------------------------------
(* Clock tamper detection *)

\* TamperDetector.__init__: threshold_seconds
THRESHOLD == 60

\* Seconds of monotonic time between two steps of the clocks
MonoStep == 5

\* What the wall clock does while monotonic time advances by MonoStep: keeps
\* pace, is set back by 30, 55, 56 or 90 seconds, or is set an hour ahead
WallSteps == {MonoStep, -30, -55, -56, -90, 3600 + MonoStep}

\* Time passes on both clocks; the wall clock may also be set
ClockStep(step) ==
    /\ mono + MonoStep <= MaxMono * MonoStep
    /\ mono' = mono + MonoStep
    /\ wall' = wall + step
    /\ last' = Call("clock", "", Void, Void)
    /\ UNCHANGED <<tamper_detected, last_check, pc, warned, user_states, store, writable, logged_in, last_logged_in,
                   td_last, td_span, gate_due>>

\* Mutant of is_tampered: a drift of exactly the threshold is reported
is_tampered_at_threshold(diff) == diff <= -THRESHOLD

\* The test of tamper_detector.py line 48
is_tampered(diff) == diff < -THRESHOLD

\* TamperDetector.check on detector state td at clocks w (wall) and m
\* (monotonic): the new detector state and the returned pair, the message
\* given by its kind and the number of seconds it names
check_fn(td, w, m) ==
    LET now == [wall |-> w, mono |-> m]
        mono_elapsed == m - td[1].mono
        expected == td[1].wall + mono_elapsed
        diff == w - expected
        jump_seconds == IF diff < 0 THEN -diff ELSE diff
    IN  IF td = None
        THEN [td |-> Some(now),
              ret |-> [tampered |-> FALSE, message |-> "Initial check", seconds |-> 0]]
        ELSE IF is_tampered(diff)
        THEN [td |-> Some(now),
              ret |-> [tampered |-> TRUE, message |-> "Clock jumped backwards by",
                       seconds |-> jump_seconds]]
        ELSE [td |-> Some(now),
              ret |-> [tampered |-> FALSE, message |-> "OK", seconds |-> 0]]

\* A call of TamperDetector.check. td_span keeps the largest lead of the wall
\* clock over the monotonic clock seen at a check since the last check that
\* reported tampering (that check included), and after it the lead seen at
\* the latest check of any run of the agent. The call record notes whether
\* the check is the first of its run and how far the wall clock fell behind
\* (negative) or ran ahead since the latest check.
tamper_check ==
    LET r == check_fn(td_last, wall, mono)
        lead == wall - mono
    IN  /\ td_last' = r.td
        /\ td_span' = IF td_span = None \/ r.ret.tampered THEN <<lead, lead>>
                      ELSE <<Max(td_span[1], lead), lead>>
        /\ last' = Call("tamper_check", "",
                        [first_of_run |-> td_last = None,
                         drift |-> IF td_span = None THEN 0 ELSE lead - td_span[2]],
                        r.ret)
        /\ UNCHANGED <<tamper_detected, last_check, pc, warned, user_states, store, writable, wall, mono, logged_in,
                       last_logged_in, gate_due>>

NextTamper ==
    \/ \E step \in WallSteps : ClockStep(step)
    \/ tamper_check

SpecTamper == Init /\ [][NextTamper]_vars

\* C9: the first call of check() records both clocks and reports not
\* tampered; every later call reports tampered iff
\* (now_wall - last_wall) - (now_monotonic - last_monotonic) < -threshold, so
\* forward jumps and backward drift of at most the threshold are not
\* reported; every call records the clocks it read.
C9_TamperCheck ==
    [][last'.op = "tamper_check" =>
         /\ td_last' = <<[wall |-> wall, mono |-> mono]>>
         /\ td_last = <<>> => ~last'.ret.tampered
         /\ td_last # <<>> =>
               LET wall_elapsed == wall - td_last[1].wall
                   real_elapsed == mono - td_last[1].mono
               IN  /\ last'.ret.tampered <=> (wall_elapsed - real_elapsed < -60)
                   /\ wall_elapsed >= real_elapsed => ~last'.ret.tampered
                   /\ (wall_elapsed = -90 /\ real_elapsed = 5) => last'.ret.tampered
                   /\ (wall_elapsed = -30 /\ real_elapsed = 5) => ~last'.ret.tampered]_vars

\* The wall clock was set back 90 seconds while 5 seconds passed, and the
\* check after a baseline check reported it
C9_Witness ==
    /\ last.op = "tamper_check"
    /\ last.ret.tampered
    /\ last.ret.seconds = 95
    /\ mono = MonoStep

\* C10: if between two checks, not necessarily consecutive, the wall clock
\* has fallen behind monotonic progress by more than the threshold in total,
\* at least one check in between reports tampering: a check that does not
\* report finds the wall clock at most the threshold behind every earlier
\* check since the last report.
C10_CumulativeDriftDetected ==
    (last.op = "tamper_check" /\ ~last.ret.tampered) =>
        td_span[1] - (wall - mono) <= THRESHOLD


-----------------------------------------------------------------------------
(* Restart of the agent process *)

\* Enforcer._load_state: the in-memory map read from the state file; a file
\* that is absent, unreadable or unparsable loads nothing
_load_state(st) ==
    IF st.file = "ok" THEN [u \in DOMAIN st.data |-> from_dict(st.data[u])]
    ELSE EmptyMap

\* The agent process ends and a new one starts: KidlockAgent.__init__ builds a
\* new Enforcer from the state file and a new TamperDetector. Both clocks of
\* the machine run on.
Restart ==
    /\ user_states' = _load_state(store)
    /\ td_last' = None
    /\ last_logged_in' = {}
    /\ last_check' = wall
    /\ tamper_detected' = FALSE
    /\ last' = Call("restart", "", Void, Void)
    /\ UNCHANGED <<pc, warned, store, writable, wall, mono, logged_in, td_span, gate_due>>

\* Specification SpecTamperRestart: tamper checks across runs of the agent
NextTamperRestart ==
    \/ \E step \in WallSteps : ClockStep(step)
    \/ tamper_check
    \/ Restart

SpecTamperRestart == Init /\ [][NextTamperRestart]_vars

\* C11: a backward jump of the wall clock beyond the threshold between the
\* last check of one run of the agent and the first check of the next run is
\* reported as tampered by the new run.
C11_TamperSurvivesRestart ==
    (last.op = "tamper_check" /\ last.arg.first_of_run
        /\ last.arg.drift < -THRESHOLD) => last.ret.tampered


-----------------------------------------------------------------------------
(* Time requests, and the commands that grant time *)

\* str(uuid.uuid4())[:8]: the identifiers a request can get
RequestIds == {"0f8a1c2e"}

\* Enforcer.create_time_request: the request replaces any pending one
create_time_request_fn(E, u, minutes, reason, id) ==
    LET S1 == get_user_state(E.us, u)
        request == [id |-> id, minutes |-> minutes, reason |-> reason,
                    created_at |-> wall]
        S2 == [S1 EXCEPT ![u].pending_request = Some(request)]
    IN  [us |-> S2, st |-> _save_state(S2, E.st), ret |-> request]

\* Mutant of has_pending_request: no request is ever seen as pending
has_pending_request_never(S, u) == FALSE

\* Enforcer.has_pending_request
has_pending_request(S, u) == get_user_state(S, u)[u].pending_request # None

\* Mutant of approve_request_fn: an approval without a pending request lifts
\* the user's block
approve_request_unblocks(E, u) ==
    LET S1 == get_user_state(E.us, u)
        minutes == dict_get(S1[u].pending_request[1], "minutes", 15)
        b == add_bonus_time_fn([us |-> S1, st |-> E.st], u, minutes)
        S3 == [b.us EXCEPT ![u].pending_request = None]
    IN  IF S1[u].pending_request = None
        THEN [us |-> unblock_user_fn([us |-> S1, st |-> E.st], u).us,
              st |-> E.st, ret |-> None]
        ELSE [us |-> S3, st |-> _save_state(S3, b.st), ret |-> Some(minutes)]

\* Mutant of approve_request_fn: the request stays pending after the grant
approve_request_keeps_request(E, u) ==
    LET S1 == get_user_state(E.us, u)
        minutes == dict_get(S1[u].pending_request[1], "minutes", 15)
        b == add_bonus_time_fn([us |-> S1, st |-> E.st], u, minutes)
    IN  IF S1[u].pending_request = None
        THEN [us |-> S1, st |-> E.st, ret |-> None]
        ELSE [us |-> b.us, st |-> _save_state(b.us, b.st), ret |-> Some(minutes)]

\* Enforcer.approve_request
approve_request_fn(E, u) ==
    LET S1 == get_user_state(E.us, u)
        minutes == dict_get(S1[u].pending_request[1], "minutes", 15)
        b == add_bonus_time_fn([us |-> S1, st |-> E.st], u, minutes)
        S3 == [b.us EXCEPT ![u].pending_request = None]
    IN  IF S1[u].pending_request = None
        THEN [us |-> S1, st |-> E.st, ret |-> None]
        ELSE [us |-> S3, st |-> _save_state(S3, b.st), ret |-> Some(minutes)]

\* Mutant of deny_request_fn: the answer is true also when nothing was pending
deny_request_always_true(E, u) ==
    LET S1 == get_user_state(E.us, u)
        S2 == [S1 EXCEPT ![u].pending_request = None]
    IN  IF S1[u].pending_request = None
        THEN [us |-> S1, st |-> E.st, ret |-> TRUE]
        ELSE [us |-> S2, st |-> _save_state(S2, E.st), ret |-> TRUE]

\* Enforcer.deny_request
deny_request_fn(E, u) ==
    LET S1 == get_user_state(E.us, u)
        S2 == [S1 EXCEPT ![u].pending_request = None]
    IN  IF S1[u].pending_request = None
        THEN [us |-> S1, st |-> E.st, ret |-> FALSE]
        ELSE [us |-> S2, st |-> _save_state(S2, E.st), ret |-> TRUE]

\* The bonus of every user stays within the explored range
BonusInRange(S) ==
    \A u \in DOMAIN S : S[u].bonus_minutes \in (0 - MaxBonus)..MaxBonus

create_time_request(u, minutes) ==
    \E id \in RequestIds :
        LET r == create_time_request_fn(Engine, u, minutes, "", id)
        IN  /\ user_states' = r.us
            /\ store' = r.st
            /\ last' = Call("create_time_request", u, [minutes |-> minutes],
                            [request |-> r.ret])
            /\ UNCHANGED <<tamper_detected, last_check, pc, warned, writable, wall, mono, logged_in, last_logged_in,
                           td_last, td_span, gate_due>>

approve_request(u) ==
    LET r == approve_request_fn(Engine, u)
    IN  /\ BonusInRange(r.us)
        /\ user_states' = r.us
        /\ store' = r.st
        /\ last' = Call("approve_request", u,
                        [blocked |-> View(user_states, u).blocked], [value |-> r.ret])
        /\ UNCHANGED <<tamper_detected, last_check, pc, warned, writable, wall, mono, logged_in, last_logged_in,
                       td_last, td_span, gate_due>>

deny_request(u) ==
    LET r == deny_request_fn(Engine, u)
    IN  /\ user_states' = r.us
        /\ store' = r.st
        /\ last' = Call("deny_request", u, Void, [value |-> r.ret])
        /\ UNCHANGED <<tamper_detected, last_check, pc, warned, writable, wall, mono, logged_in, last_logged_in,
                       td_last, td_span, gate_due>>


\* The users a command without a configuration lookup applies to: the named
\* one, configured or not, or every configured user when it names none
named_or_all(username) ==
    IF username # "" THEN <<username>> ELSE command_targets("")

RECURSIVE add_bonus_users(_, _, _)
add_bonus_users(E, targets, minutes) ==
    IF targets = <<>> THEN E
    ELSE LET b == add_bonus_time_fn(E, Head(targets), minutes)
         IN  add_bonus_users([us |-> b.us, st |-> b.st], Tail(targets), minutes)

\* KidlockAgent._on_command, action "add_time" (main.py lines 104-115);
\* minutes is command.get("minutes", 15), taken as sent
_on_command_add_time(username, minutes) ==
    LET targets == named_or_all(username)
        E == add_bonus_users(Engine, targets, minutes)
        lifted == {u \in Range(targets) :
                      u \in DOMAIN user_states /\ is_limit_block(user_states[u])}
    IN  /\ BonusInRange(E.us)
        /\ user_states' = E.us
        /\ store' = E.st
        /\ gate_due' = gate_due \ lifted
        /\ last' = Call("add_time", username, [minutes |-> minutes], Void)
        /\ UNCHANGED <<tamper_detected, last_check, pc, warned, writable, wall, mono, logged_in, last_logged_in,
                       td_last, td_span>>

\* KidlockAgent._on_command, action "request_time" (main.py lines 153-163):
\* nothing happens without a user name
_on_command_request_time(username, minutes) ==
    \E id \in RequestIds :
        LET r == create_time_request_fn(Engine, username, minutes, "", id)
        IN  /\ user_states' = IF username # "" THEN r.us ELSE user_states
            /\ store' = IF username # "" THEN r.st ELSE store
            /\ last' = Call("request_time", username, [minutes |-> minutes], Void)
            /\ UNCHANGED <<tamper_detected, last_check, pc, warned, writable, wall, mono, logged_in, last_logged_in,
                           td_last, td_span, gate_due>>

RECURSIVE approve_users(_, _)
approve_users(E, targets) ==
    IF targets = <<>> THEN E
    ELSE LET a == approve_request_fn(E, Head(targets))
         IN  approve_users([us |-> a.us, st |-> a.st], Tail(targets))

\* KidlockAgent._on_command, action "approve_request" (main.py lines 165-178)
_on_command_approve_request(username) ==
    LET targets == named_or_all(username)
        E == approve_users(Engine, targets)
        lifted == {u \in Range(targets) :
                      /\ u \in DOMAIN user_states
                      /\ user_states[u].pending_request # None
                      /\ is_limit_block(user_states[u])}
    IN  /\ BonusInRange(E.us)
        /\ user_states' = E.us
        /\ store' = E.st
        /\ gate_due' = gate_due \ lifted
        /\ last' = Call("approve_request_command", username, Void, Void)
        /\ UNCHANGED <<tamper_detected, last_check, pc, warned, writable, wall, mono, logged_in, last_logged_in,
                       td_last, td_span>>

RECURSIVE deny_users(_, _)
deny_users(E, targets) ==
    IF targets = <<>> THEN E
    ELSE LET r == deny_request_fn(E, Head(targets))
         IN  deny_users([us |-> r.us, st |-> r.st], Tail(targets))

\* KidlockAgent._on_command, action "deny_request" (main.py lines 180-191)
_on_command_deny_request(username) ==
    LET E == deny_users(Engine, named_or_all(username))
    IN  /\ user_states' = E.us
        /\ store' = E.st
        /\ last' = Call("deny_request_command", username, Void, Void)
        /\ UNCHANGED <<tamper_detected, last_check, pc, warned, writable, wall, mono, logged_in, last_logged_in,
                       td_last, td_span, gate_due>>

\* The request files of one scan of REQUEST_DIR, in the order glob yields
\* them: a file is a JSON object with a user name and minutes, or does not parse
RequestFiles ==
    {[kind |-> "request", username |-> "alice", minutes |-> 1],
     [kind |-> "request", username |-> "alice", minutes |-> -1],
     [kind |-> "request", username |-> "mallory", minutes |-> 1],
     [kind |-> "corrupt", username |-> "", minutes |-> 0]}
RequestScans ==
    {<<f>> : f \in RequestFiles} \cup {<<f, g>> : f \in RequestFiles, g \in RequestFiles}

\* The loop of _check_file_requests (main.py lines 198-226): a request is
\* created for a configured user without a pending request; every file is
\* removed
RECURSIVE process_request_files(_, _, _)
process_request_files(E, files, id) ==
    IF files = <<>> THEN E
    ELSE LET f == Head(files)
             S1 == get_user_state(E.us, f.username)
             r == create_time_request_fn([us |-> S1, st |-> E.st], f.username,
                                         f.minutes, "", id)
             E2 == IF f.kind # "request" THEN E
                   ELSE IF f.username = "" \/ get_user(f.username) = None THEN E
                   ELSE IF has_pending_request(E.us, f.username)
                   THEN [us |-> S1, st |-> E.st]
                   ELSE [us |-> r.us, st |-> r.st]
         IN  process_request_files(E2, Tail(files), id)

\* What the loop of _check_file_requests does with each file, in order:
\* whether create_time_request was called for it (main.py lines 210-213) and
\* whether it was unlinked (line 224, or line 230 after an exception)
RECURSIVE request_file_outcomes(_, _, _)
request_file_outcomes(E, files, id) ==
    IF files = <<>> THEN <<>>
    ELSE LET f == Head(files)
             created == /\ f.kind = "request"
                        /\ f.username # "" /\ get_user(f.username) # None
                        /\ ~has_pending_request(E.us, f.username)
         IN  <<[created |-> created, unlinked |-> TRUE]>>
             \o CHOOSE R \in {request_file_outcomes(B, Tail(files), id) :
                              B \in {process_request_files(E, <<f>>, id)}} : TRUE

\* KidlockAgent._check_file_requests on a directory holding the files of scan
_check_file_requests(scan) ==
    \E id \in RequestIds :
        LET E == process_request_files(Engine, scan, id)
        IN  /\ user_states' = E.us
            /\ store' = E.st
            /\ last' = Call("_check_file_requests", "", [files |-> scan],
                            [outcomes |-> request_file_outcomes(Engine, scan, id)])
            /\ UNCHANGED <<tamper_detected, last_check, pc, warned, writable, wall, mono, logged_in, last_logged_in,
                           td_last, td_span, gate_due>>

\* The minutes a command carries: any integer the sender chose
CommandMinutes == {-1, 1}
RequestUsers == {"alice", ""}

\* Specification SpecCommands: the commands and files that grant time
NextCommands ==
    \/ \E t \in RequestUsers, m \in CommandMinutes : _on_command_add_time(t, m)
    \/ \E t \in RequestUsers, m \in CommandMinutes : _on_command_request_time(t, m)
    \/ \E t \in RequestUsers : _on_command_approve_request(t)
    \/ \E t \in RequestUsers : _on_command_deny_request(t)
    \/ \E scan \in RequestScans : _check_file_requests(scan)
    \/ \E u \in Users : add_usage(u, 1)

SpecCommands == Init /\ [][NextCommands]_vars

\* C12: in every reachable state, after any engine operations and inbound
\* commands (add_time, request_time then approve_request, file requests,
\* with any integer minutes they accept), usage_minutes >= 0 and
\* bonus_minutes >= 0 for every user.
C12_NonNegative ==
    \A u \in DOMAIN user_states :
        user_states[u].usage_minutes >= 0 /\ user_states[u].bonus_minutes >= 0


-----------------------------------------------------------------------------
(* Pausing the timer *)

\* The instants of the pause specification: the start (Noon, Friday 12:00 as
\* in Init), 59 and 60 seconds and
\* 29:59 and 30:00 minutes later, a minute earlier (the clock set back), and
\* the same time on the next day
Noon == 1 * SecondsPerDay + 12 * 3600

PauseInstants ==
    {Noon + d : d \in {0, 59, 60, 30 * 60 - 1, 30 * 60, -60, SecondsPerDay}}

SetClockPause ==
    /\ \E w \in PauseInstants : w # wall /\ wall' = w
    /\ last' = Call("clock", "", Void, Void)
    /\ UNCHANGED <<tamper_detected, last_check, pc, warned, user_states, store, writable, mono, logged_in, last_logged_in,
                   td_last, td_span, gate_due>>

set_paused(u, paused) ==
    LET r == set_paused_fn(Engine, u, paused)
    IN  /\ user_states' = r.us
        /\ store' = r.st
        /\ last' = Call("set_paused", u, [paused |-> paused], Void)
        /\ UNCHANGED <<tamper_detected, last_check, pc, warned, writable, wall, mono, logged_in, last_logged_in,
                       td_last, td_span, gate_due>>

check_pause_auto_resume(u, auto_resume_minutes) ==
    LET r == check_pause_auto_resume_fn(Engine, u, auto_resume_minutes)
    IN  /\ user_states' = r.us
        /\ store' = r.st
        /\ last' = Call("check_pause_auto_resume", u,
                        [minutes |-> auto_resume_minutes], [value |-> r.ret])
        /\ UNCHANGED <<tamper_detected, last_check, pc, warned, writable, wall, mono, logged_in, last_logged_in,
                       td_last, td_span, gate_due>>

RECURSIVE set_paused_users(_, _, _)
set_paused_users(E, targets, paused) ==
    IF targets = <<>> THEN E
    ELSE set_paused_users(set_paused_fn(E, Head(targets), paused), Tail(targets),
                          paused)

\* KidlockAgent._on_command, actions "pause" and "resume" (main.py lines 80-102)
_on_command_pause(username, paused) ==
    LET E == set_paused_users(Engine, named_or_all(username), paused)
    IN  /\ user_states' = E.us
        /\ store' = E.st
        /\ last' = Call(IF paused THEN "pause" ELSE "resume", username, Void, Void)
        /\ UNCHANGED <<tamper_detected, last_check, pc, warned, writable, wall, mono, logged_in, last_logged_in,
                       td_last, td_span, gate_due>>

\* The auto-resume delays check_pause_auto_resume is called with
AutoResumeMinutes == {0, 1, PAUSE_AUTO_RESUME}

\* Specification SpecPause: pausing and resuming, by calls, commands and ticks
NextPause ==
    \/ SetClockPause
    \/ \E u \in Users, p \in BOOLEAN : set_paused(u, p)
    \/ \E u \in Users, m \in AutoResumeMinutes : check_pause_auto_resume(u, m)
    \/ \E t \in RequestUsers, p \in BOOLEAN : _on_command_pause(t, p)
    \/ _check_and_enforce

SpecPause == Init /\ [][NextPause]_vars

\* C13: in every state reachable by engine operations (set_paused,
\* check_pause_auto_resume, pause and resume commands, ticks, rollover),
\* paused_at is set if and only if paused is true.
C13_PausedAtIffPaused ==
    \A u \in DOMAIN user_states :
        (user_states[u].paused_at # <<>>) <=> user_states[u].paused

\* A user paused at noon is still paused, with the time of the pause, after
\* a tick 59 seconds later started the day's accounting for her
C13_Witness ==
    /\ last.op = "_check_and_enforce"
    /\ wall = Noon + 59
    /\ "alice" \in DOMAIN user_states
    /\ user_states["alice"].paused
    /\ user_states["alice"].paused_at = <<Noon>>
    /\ user_states["alice"].last_usage_date = <<today(wall)>>


-----------------------------------------------------------------------------
(* Day rollover of users who are blocked, paused or waiting for an answer *)

\* Friday noon and Saturday noon
RolloverInstants == {Noon, Noon + SecondsPerDay}

SetClockDay ==
    /\ \E w \in RolloverInstants : w # wall /\ wall' = w
    /\ last' = Call("clock", "", Void, Void)
    /\ UNCHANGED <<tamper_detected, last_check, pc, warned, user_states, store, writable, mono, logged_in, last_logged_in,
                   td_last, td_span, gate_due>>

\* Specification SpecRollover: alice is accounted and checked across days
\* while she and bob are blocked, paused and have requests pending
NextRollover ==
    \/ SetClockDay
    \/ check_user(ConfigUsers[1])
    \/ add_usage("alice", 1)
    \/ \E u \in Users : force_logout(u, REASON_LOCK)
    \/ \E u \in Users : set_paused(u, TRUE)
    \/ \E u \in Users : create_time_request(u, 1)

SpecRollover == Init /\ [][NextRollover]_vars

\* C14: the day rollover inside check_user or add_usage leaves blocked,
\* block_reason, paused, paused_at and pending_request of that user
\* unchanged, and changes no field of any other user.
C14_RolloverFrame ==
    [][(last'.op \in {"check_user", "add_usage"} /\ last'.arg.rolled) =>
          /\ LET before == View(user_states, last'.user)
                 after == View(user_states', last'.user)
             IN  /\ after.blocked = before.blocked
                 /\ after.block_reason = before.block_reason
                 /\ after.paused = before.paused
                 /\ after.paused_at = before.paused_at
                 /\ after.pending_request = before.pending_request
          /\ \A v \in Users \ {last'.user} :
                View(user_states', v) = View(user_states, v)]_vars

\* check_user rolled alice over to Saturday while she was blocked, paused
\* since Friday and had a request pending, and bob was paused
C14_Witness ==
    /\ last.op = "check_user"
    /\ last.arg.rolled
    /\ wall = Noon + SecondsPerDay
    /\ user_states["alice"].blocked
    /\ user_states["alice"].paused_at = <<Noon>>
    /\ user_states["alice"].pending_request # <<>>
    /\ user_states["alice"].last_usage_date = <<today(wall)>>
    /\ "bob" \in DOMAIN user_states
    /\ user_states["bob"].paused


-----------------------------------------------------------------------------
(* Time warnings: which thresholds are due, and marking them as sent *)

get_warnings_to_send(u, daily_limit, warning_thresholds) ==
    /\ user_states' = IF daily_limit <= 0 THEN user_states
                      ELSE get_user_state(user_states, u)
    /\ last' = Call("get_warnings_to_send", u,
                    [daily_limit |-> daily_limit, thresholds |-> warning_thresholds],
                    [value |-> get_warnings_to_send_fn(user_states, u, daily_limit,
                                                       warning_thresholds)])
    /\ UNCHANGED <<tamper_detected, last_check, pc, warned, store, writable, wall, mono, logged_in, last_logged_in,
                   td_last, td_span, gate_due>>

mark_warning_sent(u, threshold) ==
    LET r == mark_warning_sent_fn(Engine, u, threshold)
    IN  /\ user_states' = r.us
        /\ store' = r.st
        /\ warned' = warned \cup {Warned(u, threshold)}
        /\ last' = Call("mark_warning_sent", u, [threshold |-> threshold], Void)
        /\ UNCHANGED <<tamper_detected, last_check, pc, writable, wall, mono, logged_in, last_logged_in,
                       td_last, td_span, gate_due>>

\* Threshold lists and daily limits get_warnings_to_send is called with
ThresholdLists == {<<2, 1, 0>>, <<1, 2>>}
WarnLimits == {0, 2}

\* Specification SpecWarnings: warnings of one user on two days
NextWarnings ==
    \/ SetClockDay
    \/ check_user(ConfigUsers[1])
    \/ add_usage("alice", 1)
    \/ add_bonus_time("alice", 1)
    \/ \E t \in {1, 2} : mark_warning_sent("alice", t)
    \/ \E d \in WarnLimits, th \in ThresholdLists : get_warnings_to_send("alice", d, th)

SpecWarnings == Init /\ [][NextWarnings]_vars

\* The minutes remaining of a positive daily limit for a user in state s
RemainingOf(s, daily_limit) ==
    IF s.last_usage_date # <<wall \div SecondsPerDay>> THEN daily_limit
    ELSE IF daily_limit + s.bonus_minutes - s.usage_minutes < 0 THEN 0
    ELSE daily_limit + s.bonus_minutes - s.usage_minutes

\* The thresholds of list th, in order, that are not in sent and not below
\* remaining
DueThresholds(th, sent, remaining) ==
    LET due(t) == t \notin sent /\ remaining <= t
    IN  SelectSeq(th, due)

\* C15 as stated: get_warnings_to_send returns exactly the thresholds t of
\* the input list with t not in warnings_sent and
\* get_time_remaining(daily_limit) <= t, in the order of the list. For a
\* daily limit of 0 or less get_time_remaining is -1.
C15_WarningsDueAnyLimit ==
    [][last'.op = "get_warnings_to_send" =>
          LET s == View(user_states, last'.user)
              d == last'.arg.daily_limit
              remaining == IF d <= 0 THEN -1 ELSE RemainingOf(s, d)
          IN  last'.ret.value =
                  DueThresholds(last'.arg.thresholds, s.warnings_sent, remaining)]_vars

\* C15: for a daily limit above 0, get_warnings_to_send returns exactly the
\* thresholds t of the input list with t not in warnings_sent and
\* get_time_remaining(daily_limit) <= t, in the order of the list; for a
\* daily limit of 0 or less (no limit) it returns the empty list.
C15_WarningsDue ==
    [][last'.op = "get_warnings_to_send" =>
          LET s == View(user_states, last'.user)
              d == last'.arg.daily_limit
          IN  last'.ret.value =
                  IF d <= 0 THEN <<>>
                  ELSE DueThresholds(last'.arg.thresholds, s.warnings_sent,
                                     RemainingOf(s, d))]_vars

\* One minute remains of a limit of 2: of the thresholds 2, 1, 0 the first
\* two are due
C15_Witness ==
    /\ last.op = "get_warnings_to_send"
    /\ last.arg = [daily_limit |-> 2, thresholds |-> <<2, 1, 0>>]
    /\ user_states["alice"].usage_minutes = 1
    /\ user_states["alice"].bonus_minutes = 0
    /\ user_states["alice"].last_usage_date = <<today(wall)>>
    /\ last.ret.value = <<2, 1>>


\* C16: get_warnings_to_send has no side effect on warnings_sent or the
\* store; two calls with nothing between them return the same list; and
\* after mark_warning_sent(t) no later call on the same day returns t,
\* whatever usage and bonus changes follow.
C16_WarningsIdempotent ==
    /\ [](last.op = "get_warnings_to_send" =>
             \A t \in Range(last.ret.value) :
                 ~\E h \in warned : /\ h.user = last.user
                                    /\ h.threshold = t
                                    /\ h.day = today(wall))
    /\ [][last'.op = "get_warnings_to_send" =>
             /\ store' = store
             /\ \A v \in Users :
                   View(user_states', v).warnings_sent = View(user_states, v).warnings_sent
             /\ (last.op = "get_warnings_to_send" /\ last.user = last'.user
                    /\ last.arg = last'.arg) => last'.ret = last.ret]_vars


-----------------------------------------------------------------------------
(* Repeated pauses and the automatic end of a pause (specification SpecPause) *)

\* A step of set_paused that asks for the value paused already has
NoOpSetPaused ==
    /\ last'.op = "set_paused"
    /\ View(user_states, last'.user).paused = last'.arg.paused

\* No field of any user changes in the step
SameUserStates ==
    \A v \in Users : View(user_states', v) = View(user_states, v)

\* The state file holds what the memory holds after the step
StoreRewritten ==
    /\ store'.file = "ok"
    /\ DOMAIN store'.data = DOMAIN user_states'
    /\ \A v \in DOMAIN user_states' : store'.data[v] = to_dict(user_states'[v])

\* C18 as stated: set_paused(p) when paused already equals p changes no
\* UserState field and does not write the store.
C18_NoOpWritesNothing ==
    [][NoOpSetPaused => (SameUserStates /\ store' = store)]_vars

\* C18: set_paused(p) when paused already equals p changes no UserState
\* field (a repeated pause keeps the original paused_at), and every call of
\* set_paused, changing paused or not, writes the store from memory.
C18_NoOpSetPausedSaves ==
    [][/\ NoOpSetPaused => SameUserStates
       /\ last'.op = "set_paused" => StoreRewritten]_vars

\* A pause repeated a minute after the first keeps the time of the first
C18_Witness ==
    /\ last.op = "set_paused"
    /\ last.user = "alice"
    /\ last.arg.paused
    /\ wall = Noon + 60
    /\ user_states["alice"].paused
    /\ user_states["alice"].paused_at = <<Noon>>

\* The pause of s has lasted at least m minutes at instant w
PauseElapsed(s, m, w) ==
    s.paused /\ s.paused_at # <<>> /\ w - s.paused_at[1] >= m * 60

\* C19: check_pause_auto_resume(m) returns true, leaving paused false and
\* paused_at absent, iff the user was paused and now - paused_at >= m
\* minutes; otherwise it returns false and changes no field; and a pause
\* ends only in a step that resumes it or calls check_pause_auto_resume (a
\* tick calls it with the configured delay).
C19_AutoResume ==
    [][/\ last'.op = "check_pause_auto_resume" =>
            LET u == last'.user
                s == View(user_states, u)
                due == PauseElapsed(s, last'.arg.minutes, wall)
            IN  /\ last'.ret.value = due
                /\ due => View(user_states', u) =
                              [s EXCEPT !.paused = FALSE, !.paused_at = <<>>]
                /\ ~due => View(user_states', u) = s
                /\ \A v \in Users \ {u} : View(user_states', v) = View(user_states, v)
       /\ \A v \in Users :
            (View(user_states, v).paused /\ ~View(user_states', v).paused) =>
                \/ last'.op \in {"set_paused", "resume", "check_pause_auto_resume"}
                \/ /\ last'.op = "_check_and_enforce"
                   /\ PauseElapsed(View(user_states, v), PAUSE_AUTO_RESUME, wall)]_vars

\* A pause that has lasted exactly the 30 minutes asked for is ended by the call
C19_Witness ==
    /\ last.op = "check_pause_auto_resume"
    /\ last.user = "alice"
    /\ last.arg.minutes = PAUSE_AUTO_RESUME
    /\ last.ret.value
    /\ wall = Noon + PAUSE_AUTO_RESUME * 60
    /\ ~user_states["alice"].paused
    /\ user_states["alice"].paused_at = <<>>


-----------------------------------------------------------------------------
(* Granting a time request *)

\* Specification SpecRequests: requests made, granted and denied through the
\* engine for users who may be blocked
NextRequests ==
    \/ \E u \in Users, m \in CommandMinutes : create_time_request(u, m)
    \/ \E u \in Users : approve_request(u)
    \/ \E u \in Users : deny_request(u)
    \/ \E reason \in {REASON_LIMIT, REASON_LOCK} : force_logout("alice", reason)
    \/ add_usage("alice", 1)
    \/ set_paused("alice", TRUE)

SpecRequests == Init /\ [][NextRequests]_vars

\* C20: approve_request on a user whose pending_request asks for m minutes
\* increases bonus_minutes by exactly m, lifts a block made for the daily
\* limit, clears pending_request and returns m; without a pending request it
\* returns absent and changes nothing, so an approve_request that follows
\* another at once returns absent and adds nothing.
C20_ApproveGrantsOnce ==
    [][last'.op = "approve_request" =>
          LET u == last'.user
              s == View(user_states, u)
              s2 == View(user_states', u)
          IN  /\ s.pending_request # <<>> =>
                    /\ s2.bonus_minutes = s.bonus_minutes + s.pending_request[1].minutes
                    /\ s2.pending_request = <<>>
                    /\ last'.ret.value = <<s.pending_request[1].minutes>>
                    /\ (s.blocked /\ s.block_reason = REASON_LIMIT) => ~s2.blocked
                    /\ (s.blocked /\ s.block_reason = REASON_LOCK) => s2.blocked
                    /\ writable => Stored(store', u).pending_request = <<>>
              /\ s.pending_request = <<>> =>
                    /\ last'.ret.value = <<>>
                    /\ s2 = s
              /\ (last.op = "approve_request" /\ last.user = u) =>
                    /\ last'.ret.value = <<>>
                    /\ s2.bonus_minutes = s.bonus_minutes]_vars

\* A request for one minute was granted to a user blocked for the daily
\* limit: the minute is added, the block lifted and the request gone
C20_Witness ==
    /\ last.op = "approve_request"
    /\ last.user = "alice"
    /\ last.arg.blocked
    /\ last.ret.value = <<1>>
    /\ user_states["alice"].bonus_minutes = 1
    /\ ~user_states["alice"].blocked
    /\ user_states["alice"].pending_request = <<>>


-----------------------------------------------------------------------------
(* Warnings delivered by the driver tick *)

\* Specification SpecWarnTicks: a user logs in, her time is used up, bonus
\* time is granted by command, ticks warn her, and the day changes
NextWarnTicks ==
    \/ SetClockDay
    \/ _check_and_enforce
    \/ add_usage("alice", 1)
    \/ LoginAttempt("alice")
    \/ _on_command_add_time("alice", 1)

SpecWarnTicks == Init /\ [][NextWarnTicks]_vars

\* C17: across any sequence of ticks, for each user, calendar day and
\* warning threshold, the warning for that threshold is delivered at most
\* once (no entry of the history warned repeats an earlier one of the same
\* user, threshold and day), and a tick adds a threshold to warnings_sent
\* only for a warning it delivered.
C17_WarnedOncePerDay ==
    /\ [](\A h \in warned : ~h.again)
    /\ [][last'.op = "_check_and_enforce" =>
             \A v \in Users :
                 \A t \in View(user_states', v).warnings_sent
                           \ View(user_states, v).warnings_sent :
                     \E h \in warned' : /\ h.user = v
                                        /\ h.threshold = t
                                        /\ h.day = today(wall)]_vars


-----------------------------------------------------------------------------
(* Answers to a user without a pending request, and denials *)

\* C21: approve_request on a user with no pending request returns absent
\* and leaves every field of the user's state unchanged, bonus_minutes,
\* blocked and block_reason among them; no other user and no byte of the
\* store changes either.
C21_ApproveWithoutRequest ==
    [][(/\ last'.op = "approve_request"
        /\ View(user_states, last'.user).pending_request = <<>>) =>
            /\ last'.ret.value = <<>>
            /\ \A v \in Users : View(user_states', v) = View(user_states, v)
            /\ store' = store]_vars

\* An approval found alice blocked for the daily limit and without a
\* request: she is still blocked and has no bonus time
C21_Witness ==
    /\ last.op = "approve_request"
    /\ last.user = "alice"
    /\ last.ret.value = <<>>
    /\ last.arg.blocked
    /\ user_states["alice"].blocked
    /\ user_states["alice"].block_reason = REASON_LIMIT
    /\ user_states["alice"].bonus_minutes = 0

\* C22: deny_request returns true iff a pending_request existed before the
\* call; after the call pending_request is absent in both cases, and no
\* other field (bonus_minutes, usage_minutes, blocked, paused among them)
\* has changed.
C22_DenyRequest ==
    [][last'.op = "deny_request" =>
          LET u == last'.user
              s == View(user_states, u)
          IN  /\ last'.ret.value = (s.pending_request # <<>>)
              /\ View(user_states', u) = [s EXCEPT !.pending_request = <<>>]
              /\ \A v \in Users \ {u} : View(user_states', v) = View(user_states, v)]_vars

\* A request of alice, who is blocked and paused and has used time and bonus
\* time, was denied
C22_Witness ==
    /\ last.op = "deny_request"
    /\ last.user = "alice"
    /\ last.ret.value
    /\ user_states["alice"].pending_request = <<>>
    /\ user_states["alice"].blocked
    /\ user_states["alice"].paused
    /\ user_states["alice"].usage_minutes = 1
    /\ user_states["alice"].bonus_minutes = 1


-----------------------------------------------------------------------------
(* One pending request per user (specification SpecCommands) *)

\* C23: a new time request arriving while one is pending, through the file
\* channel or through the request_time command, is rejected: a pending
\* request (id, minutes, reason, created_at) stays as it is in every step
\* except an approval or a denial, which removes it.
C23_PendingRequestKept ==
    [][\A u \in Users :
          LET p == View(user_states, u).pending_request
              q == View(user_states', u).pending_request
          IN  p # <<>> =>
                 \/ q = p
                 \/ /\ q = <<>>
                    /\ last'.op \in {"approve_request_command",
                                     "deny_request_command"}]_vars


-----------------------------------------------------------------------------
(* The codec of UserState *)

\* The states given to the codec: the combinations of a default and a
\* non-default value of each field, a reason with every block and a time
\* with every pause
CodecStates ==
    {s \in [usage_minutes : {0, 2}, last_usage_date : {None, Some(1)},
            blocked : BOOLEAN, block_reason : {"", REASON_LIMIT},
            paused : BOOLEAN, paused_at : {None, Some(Noon)},
            bonus_minutes : {0, 1, -1}, warnings_sent : SUBSET {1, 2},
            is_idle : BOOLEAN,
            pending_request : {None, Some([id |-> "0f8a1c2e", minutes |-> 1,
                                           reason |-> "", created_at |-> Noon])}] :
        /\ s.blocked = (s.block_reason # "")
        /\ s.paused = (s.paused_at # None)}

\* A stored record with no default value in it
FullRecord ==
    [usage_minutes |-> 2, last_usage_date |-> Some(1), blocked |-> TRUE,
     block_reason |-> REASON_LIMIT, paused |-> TRUE, paused_at |-> Some(Noon),
     bonus_minutes |-> 1, warnings_sent |-> <<2, 1>>,
     pending_request |-> Some([id |-> "0f8a1c2e", minutes |-> 1,
                               reason |-> "", created_at |-> Noon])]

\* The records given to from_dict: FullRecord with any of its fields missing,
\* and with lists of warnings in any order and with repetitions
StoredRecords ==
    {[k \in K |-> FullRecord[k]] : K \in SUBSET DOMAIN FullRecord}
        \cup {[FullRecord EXCEPT !.warnings_sent = w] :
                 w \in {<<1, 2>>, <<1, 1, 2>>, <<2, 2>>, <<2, 1, 2>>, <<>>}}

\* to_dict followed by from_dict on state s
round_trip(s) ==
    /\ last' = Call("round_trip", "", [state |-> s],
                    [dict |-> to_dict(s), state |-> from_dict(to_dict(s))])
    /\ UNCHANGED <<tamper_detected, last_check, pc, warned, user_states, store, writable, wall, mono, logged_in,
                   last_logged_in, td_last, td_span, gate_due>>

\* from_dict on the stored record d
from_dict_call(d) ==
    /\ last' = Call("from_dict", "", [dict |-> d], [state |-> from_dict(d)])
    /\ UNCHANGED <<tamper_detected, last_check, pc, warned, user_states, store, writable, wall, mono, logged_in,
                   last_logged_in, td_last, td_span, gate_due>>

\* Specification SpecCodec: the codec applied to states and stored records
NextCodec ==
    \/ \E s \in CodecStates : round_trip(s)
    \/ \E d \in StoredRecords : from_dict_call(d)

SpecCodec == Init /\ [][NextCodec]_vars

\* C24: from_dict(to_dict(s)) equals s on every persisted field, with
\* warnings_sent compared as a set; is_idle is not serialized and is false
\* after deserialization; a field missing from the stored record takes its
\* default, and a list of warnings is read as the set of its elements.
C24_RoundTrip ==
    /\ last.op = "round_trip" =>
          /\ last.ret.state = [last.arg.state EXCEPT !.is_idle = FALSE]
          /\ "is_idle" \notin DOMAIN last.ret.dict
          /\ Range(last.ret.dict.warnings_sent) = last.arg.state.warnings_sent
    /\ last.op = "from_dict" =>
          LET d == last.arg.dict
              r == last.ret.state
          IN  /\ r.is_idle = FALSE
              /\ DOMAIN r = DOMAIN UserState0
              /\ \A k \in DOMAIN UserState0 \ {"is_idle"} :
                    r[k] = IF k \notin DOMAIN d THEN UserState0[k]
                           ELSE IF k = "warnings_sent" THEN Range(d[k])
                           ELSE d[k]

\* A paused, idle user with both warnings sent and a pending request went
\* through the codec
C24_Witness ==
    /\ last.op = "round_trip"
    /\ last.arg.state.is_idle
    /\ last.arg.state.paused_at = <<Noon>>
    /\ last.arg.state.warnings_sent = {1, 2}
    /\ last.arg.state.pending_request # <<>>
    /\ last.ret.state.warnings_sent = {1, 2}
    /\ ~last.ret.state.is_idle


-----------------------------------------------------------------------------
(* Write-through persistence *)

\* The state file holds what the memory holds
InSync ==
    \A u \in Users : Stored(store, u) = [View(user_states, u) EXCEPT !.is_idle = FALSE]

\* Specification SpecStore: every mutating call of the engine, on a state
\* file that is at times unwritable. The file stays unwritable for one call
\* that has something to write.
NextStore ==
    \/ SetWritable
    \/ /\ writable \/ InSync
       /\ \/ check_user(ConfigUsers[1])
          \/ add_usage("alice", 1)
          \/ \E u \in Users : force_logout(u, REASON_LOCK)
          \/ unblock_user("alice")
          \/ \E p \in BOOLEAN : set_paused("alice", p)
          \/ add_bonus_time("alice", 1)
          \/ mark_warning_sent("alice", 2)
          \/ create_time_request("alice", 1)
          \/ approve_request("alice")
          \/ deny_request("alice")

SpecStore == Init /\ [][NextStore]_vars

\* The last step was a call of the engine that ends with a write of the store
WroteStore ==
    \/ last.op \in {"add_usage", "force_logout", "unblock_user", "set_paused",
                    "add_bonus_time", "mark_warning_sent", "create_time_request"}
    \/ last.op = "check_user" /\ last.arg.rolled
    \/ last.op = "approve_request" /\ last.ret.value # <<>>
    \/ last.op = "deny_request" /\ last.ret.value

\* C25: after every completed mutating engine call whose write succeeds,
\* the store, read with absent fields and absent users taken as defaults,
\* equals the in-memory state on all persisted fields of every user, and
\* the login gate allows exactly the users whose in-memory blocked is false.
C25_WriteThrough ==
    (WroteStore /\ writable) =>
        \A u \in Users :
            /\ Stored(store, u) = [View(user_states, u) EXCEPT !.is_idle = FALSE]
            /\ check_login_allowed(store, u).allowed = ~View(user_states, u).blocked

\* A mark written after alice was blocked and had used time brings the store
\* up to date with all of it
C25_Witness ==
    /\ last.op = "mark_warning_sent"
    /\ writable
    /\ user_states["alice"].blocked
    /\ user_states["alice"].usage_minutes = 1
    /\ user_states["alice"].paused
    /\ Stored(store, "alice").warnings_sent = {2}
    /\ ~check_login_allowed(store, "alice").allowed


-----------------------------------------------------------------------------
(* The tick of the main thread and a command of the message-bus thread *)

\* The loop body of _check_and_enforce for one user up to and including
\* check_user (main.py lines 259-278): the engine state and the verdict
enforce_user_evaluate(E, user_config) ==
    LET u == user_config.username
        S0 == get_user_state(E.us, u)
        E0 == [us |-> S0, st |-> E.st]
        p == check_pause_auto_resume_fn(E0, u, PAUSE_AUTO_RESUME)
        E1 == IF S0[u].paused THEN [us |-> p.us, st |-> p.st] ELSE E0
        c == check_user_fn(E1, user_config)
    IN  [us |-> c.us, st |-> c.st, ret |-> c.ret]

\* The rest of the loop body (main.py lines 280-292), acting on the verdict
\* check_user gave: on the engine state as it is by then
enforce_user_act(A, user_config, observed, verdict, outs, notify_ok) ==
    LET u == user_config.username
        E2 == [us |-> A.us, st |-> A.st]
        f == force_logout_fn(E2, u, verdict.reason, outs[u])
    IN  IF u \notin observed THEN A
        ELSE IF ~verdict.allowed
        THEN [us |-> f.us, st |-> f.st,
              failed |-> IF f.ret THEN A.failed ELSE A.failed \cup {u},
              terminated |-> IF f.ret THEN A.terminated \cup {u} ELSE A.terminated,
              delivered |-> A.delivered]
        ELSE LET E3 == unblock_user_fn(E2, u)
                 w == _check_and_send_warnings(E3, user_config, notify_ok)
                 to_send == get_warnings_to_send_fn(E3.us, u, user_config.daily_minutes,
                                                    user_config.warnings)
             IN  [us |-> w.us, st |-> w.st, failed |-> A.failed,
                  terminated |-> A.terminated,
                  delivered |-> IF notify_ok
                                THEN A.delivered \cup {<<u, t>> : t \in Range(to_send)}
                                ELSE A.delivered]

\* The commands that arrive while a tick is under way: lock, with the
\* outcome of its termination commands, and add_time
TickCommands ==
    {[action |-> "lock", username |-> "alice", minutes |-> 0, out |-> o] :
        o \in AgentTermOutcomes}
    \cup {[action |-> "add_time", username |-> "alice", minutes |-> 1,
           out |-> [loginctl |-> "ok", pkill |-> "unused"]]}

\* _on_command for cmd on P = [us, st, logged_in]
run_command(P, cmd) ==
    LET f == force_logout_fn([us |-> P.us, st |-> P.st], cmd.username, REASON_LOCK,
                             cmd.out)
        b == add_bonus_time_fn([us |-> P.us, st |-> P.st], cmd.username, cmd.minutes)
    IN  IF cmd.action = "lock"
        THEN [us |-> f.us, st |-> f.st,
              logged_in |-> IF f.ret THEN P.logged_in \ {cmd.username}
                            ELSE P.logged_in]
        ELSE [us |-> b.us, st |-> b.st, logged_in |-> P.logged_in]

\* _check_and_enforce on P = [us, st, logged_in] when who lists observed
tick_result(P, observed, outs, notify_ok) ==
    CHOOSE R \in {[us |-> A.us, st |-> A.st, logged_in |-> P.logged_in \ A.terminated] :
                     A \in {enforce_users([us |-> P.us, st |-> P.st, failed |-> {},
                                           terminated |-> {}, delivered |-> {}],
                                          1, observed, outs, notify_ok)}} : TRUE

\* The main thread enters a tick and runs it up to the verdict of check_user
\* for the first configured user
tick_evaluate ==
    /\ pc = None
    /\ \E who_ok \in BOOLEAN :
        \E r \in {enforce_user_evaluate(Engine, ConfigUsers[1])} :
            /\ user_states' = r.us
            /\ store' = r.st
            /\ pc' = Some([pre |-> [us |-> user_states, st |-> store,
                                    logged_in |-> logged_in],
                           observed |-> get_logged_in_users(who_ok),
                           verdict |-> r.ret,
                           command |-> None])
    /\ last' = Call("tick_evaluate", "", Void, Void)
    /\ UNCHANGED <<tamper_detected, last_check, writable, wall, mono, logged_in, last_logged_in, td_last, td_span,
                   gate_due, warned>>

\* The message-bus thread runs _on_command for cmd while the main thread is
\* inside the tick
command_in_tick(cmd) ==
    /\ pc # None
    /\ pc[1].command = None
    /\ \E R \in {run_command([us |-> user_states, st |-> store,
                               logged_in |-> logged_in], cmd)} :
            /\ BonusInRange(R.us)
            /\ user_states' = R.us
            /\ store' = R.st
            /\ logged_in' = R.logged_in
    /\ gate_due' = IF cmd.action = "lock" /\ ~force_logout_result(cmd.out)
                   THEN gate_due \cup {cmd.username}
                   ELSE IF cmd.action = "add_time"
                           /\ is_limit_block(View(user_states, cmd.username))
                   THEN gate_due \ {cmd.username}
                   ELSE gate_due
    /\ pc' = Some([pc[1] EXCEPT !.command = Some(cmd)])
    /\ last' = Call("command_in_tick", cmd.username, [command |-> cmd], Void)
    /\ UNCHANGED <<tamper_detected, last_check, writable, wall, mono, last_logged_in, td_last, td_span, warned>>

\* The main thread finishes the tick: it acts on the verdict it holds for the
\* first user and runs the loop for the others
tick_act ==
    /\ pc # None
    /\ \E notify_ok \in BOOLEAN :
        \E outs \in [pc[1].observed -> AgentTermOutcomes] :
        \E A0 \in {enforce_user_act([us |-> user_states, st |-> store, failed |-> {},
                                     terminated |-> {}, delivered |-> {}],
                                    ConfigUsers[1], pc[1].observed, pc[1].verdict,
                                    outs, notify_ok)} :
        \E A \in {enforce_users(A0, 2, pc[1].observed, outs, notify_ok)} :
            /\ user_states' = A.us
            /\ store' = A.st
            /\ logged_in' = logged_in \ A.terminated
            /\ last_logged_in' = pc[1].observed
            /\ gate_due' = gate_due \cup A.failed
            /\ warned' = warned \cup {Warned(d[1], d[2]) : d \in A.delivered}
    /\ pc' = None
    /\ last' = Call("tick_act", "", Void, Void)
    /\ UNCHANGED <<tamper_detected, last_check, writable, wall, mono, td_last, td_span>>

\* Specification SpecThreads: ticks of the main thread with at most one
\* command of the message-bus thread inside each; between ticks alice logs in
\* and uses time
NextThreads ==
    \/ tick_evaluate
    \/ \E cmd \in TickCommands : command_in_tick(cmd)
    \/ tick_act
    \/ pc = None /\ LoginAttempt("alice")
    \/ pc = None /\ add_usage("alice", 1)

SpecThreads == Init /\ [][NextThreads]_vars

\* The outcomes of the whole tick on P, for every answer of who, of the
\* notifier and of the termination commands
TickOutcomes(P) ==
    UNION {{tick_result(P, IF who_ok THEN P.logged_in ELSE {}, outs, notify_ok) :
               outs \in [(IF who_ok THEN P.logged_in ELSE {}) -> AgentTermOutcomes]} :
           who_ok \in BOOLEAN, notify_ok \in BOOLEAN}

\* The outcomes of the command on P, for every outcome of its termination
\* commands
CommandOutcomes(P, cmd) ==
    {run_command(P, [cmd EXCEPT !.out = o]) : o \in AgentTermOutcomes}

\* The outcomes of the tick and the command run one after the other
SerialOutcomes(P, cmd) ==
    UNION {TickOutcomes(Q) : Q \in CommandOutcomes(P, cmd)}
        \cup UNION {CommandOutcomes(Q, cmd) : Q \in TickOutcomes(P)}

\* C26: a command of the message-bus thread that runs while the tick of the
\* main thread is under way does not interleave with it: the state the
\* tick ends in (every user's state, the store, the sessions) is one that
\* the tick and the command produce when run one after the other in some
\* order.
C26_Serializable ==
    [][(pc # None /\ pc' = None /\ pc[1].command # None) =>
          [us |-> user_states', st |-> store', logged_in |-> logged_in']
              \in SerialOutcomes(pc[1].pre, pc[1].command[1])]_vars


-----------------------------------------------------------------------------
(* The login gate while the agent rewrites the state file *)

\* The state file between open(STATE_FILE, "w"), which empties it, and the
\* end of json.dump: empty or a prefix of the new text, which does not parse
FileInWrite == [file |-> "corrupt", data |-> EmptyMap]

\* add_usage up to the open() of _save_state: the memory holds the new usage
\* and the file is emptied
add_usage_open(u, minutes) ==
    LET r == add_usage_fn(Engine, u, minutes)
    IN  /\ store.file # "corrupt"
        /\ r.us[u].usage_minutes <= MaxUsage
        /\ user_states' = r.us
        /\ store' = IF writable THEN FileInWrite ELSE store
        /\ last' = Call("add_usage_open", u, [minutes |-> minutes], Void)
        /\ UNCHANGED <<tamper_detected, last_check, writable, wall, mono, logged_in, last_logged_in, td_last,
                       td_span, gate_due, warned, pc>>

\* json.dump of _save_state completes the write that is under way
_save_state_dump ==
    /\ store.file = "corrupt"
    /\ store' = _save_state(user_states, store)
    /\ last' = Call("_save_state_dump", "", Void, Void)
    /\ UNCHANGED <<tamper_detected, last_check, user_states, writable, wall, mono, logged_in, last_logged_in,
                   td_last, td_span, gate_due, warned, pc>>

\* Specification SpecGateWrite: logins while the agent blocks and unblocks
\* users and accounts usage, the write of add_usage taking two steps
NextGateWrite ==
    \/ store.file # "corrupt" /\ \E u \in Users : force_logout(u, REASON_LOCK)
    \/ store.file # "corrupt" /\ \E u \in Users : unblock_user(u)
    \/ \E u \in Users : add_usage_open(u, 1)
    \/ _save_state_dump
    \/ \E u \in Users : LoginAttempt(u)

SpecGateWrite == Init /\ [][NextGateWrite]_vars

\* C27: a login check that runs while the state file is being rewritten
\* sees the complete previous or the complete new state: a user who is
\* blocked before and after the write (here the write of add_usage, which
\* leaves blocked as it is in memory and in the file) is denied.
C27_ConsistentRead ==
    (/\ last.op = "login"
     /\ store.file = "corrupt"
     /\ View(user_states, last.user).blocked) => ~last.ret.allowed

-----------------------------------------------------------------------------
(* Malformed schedule windows *)

\* Window strings that are not two HH:MM times around one hyphen: empty, no
\* hyphen, two hyphens, no colon, hour or minute out of range, a missing
\* end, seconds given, dots for colons, blanks only
MalformedWindows ==
    {<<>>,
     <<"0", "9", ":", "0", "0">>,
     <<"0", "9", ":", "0", "0", "-", "1", "2", ":", "0", "0", "-", "1", "7", ":", "0", "0">>,
     <<"9", "a", "m", "-", "5", "p", "m">>,
     <<"2", "5", ":", "0", "0", "-", "2", "6", ":", "0", "0">>,
     <<"0", "9", ":", "6", "0", "-", "1", "7", ":", "0", "0">>,
     <<"0", "9", ":", "0", "0", "-">>,
     <<"0", "9", "0", "0", "-", "1", "7", "0", "0">>,
     <<"0", "9", ":", "0", "0", "-", "1", "7", ":", "0", "0", ":", "0", "0">>,
     <<"0", "9", ".", "0", "0", "-", "1", "7", ".", "0", "0">>,
     <<" ", "-", " ">>}

\* Configurations of alice whose weekday window, or weekend window, is malformed
MalformedUsers ==
    {[username |-> "alice", daily_minutes |-> 2,
      schedule |-> [weekday |-> m, weekend |-> W_WEEKEND],
      warnings |-> <<2, 1>>] : m \in MalformedWindows}
    \cup
    {[username |-> "alice", daily_minutes |-> 2,
      schedule |-> [weekday |-> W_SCHOOL, weekend |-> m],
      warnings |-> <<2, 1>>] : m \in MalformedWindows}

\* Times of day the malformed windows are evaluated at: midnight, the last
\* second before 09:00, noon, the last minute of the day
MalformedTimes == {0, 8 * 3600 + 59 * 60 + 59, 12 * 3600, 23 * 3600 + 59 * 60 + 30}

\* datetime.now() returns any of these times on a weekday or a weekend day
SetClockMalformed ==
    /\ \E d \in ScheduleDays, t \in MalformedTimes :
          /\ d * SecondsPerDay + t # wall
          /\ wall' = d * SecondsPerDay + t
    /\ last' = Call("clock", "", Void, Void)
    /\ UNCHANGED <<tamper_detected, last_check, pc, warned, user_states, store, writable, mono, logged_in, last_logged_in,
                   td_last, td_span, gate_due>>

\* The schedule check and check_user under a configuration with a malformed
\* window
NextMalformed ==
    \/ SetClockMalformed
    \/ \E user_config \in MalformedUsers : is_within_schedule_call(user_config)
    \/ \E user_config \in MalformedUsers : check_user(user_config)
    \/ add_usage("alice", 1)

SpecMalformed == Init /\ [][NextMalformed]_vars

\* The window is_within_schedule reads at instant w
schedule_str_at(schedule, w) ==
    IF weekday_of(w) >= 5 THEN schedule.weekend ELSE schedule.weekday

\* C28: a malformed window makes the schedule check fail open:
\* is_within_schedule is true at every time of day, and check_user returns a
\* pair whose reason is never "Outside allowed hours".
C28_MalformedFailsOpen ==
    /\ (/\ last.op = "is_within_schedule"
        /\ schedule_str_at(last.arg.schedule, wall) \in MalformedWindows)
           => last.ret.value = TRUE
    /\ (/\ last.op = "check_user"
        /\ schedule_str_at(last.arg.schedule, wall) \in MalformedWindows)
           => /\ last.ret \in [allowed : BOOLEAN, reason : {"", REASON_LIMIT}]
              /\ last.ret.allowed = (last.ret.reason = "")

\* check_user ran at night with an hour out of range in the weekday window and
\* allowed the session
C28_Witness ==
    /\ last.op = "check_user"
    /\ weekday_of(wall) < 5
    /\ time_of_day(wall) = 0
    /\ last.arg.schedule.weekday = <<"2", "5", ":", "0", "0", "-", "2", "6", ":", "0", "0">>
    /\ last.ret.allowed

-----------------------------------------------------------------------------
(* Writes of the state file that fail *)

\* The ways _save_state fails other than open() raising: STATE_DIR.mkdir
\* raises (the directory is missing and cannot be created), or json.dump
\* raises after open() emptied the file (the disk is full)
SaveFailures == {"mkdir", "dump"}

\* add_usage whose _save_state fails as `how` says. mkdir is called outside
\* the try block and its exception leaves add_usage; json.dump is inside it.
add_usage_save_fails(u, minutes, how) ==
    LET r == add_usage_fn(Engine, u, minutes)
    IN  /\ r.us[u].usage_minutes <= MaxUsage
        /\ how = "mkdir" => store.file = "absent"
        /\ how = "dump" => writable
        /\ user_states' = r.us
        /\ store' = IF how = "dump" THEN FileInWrite ELSE store
        /\ last' = Call("add_usage", u,
                        [minutes |-> minutes, rolled |-> r.rolled, save |-> how],
                        IF how = "mkdir" THEN [raised |-> "OSError"] ELSE Void)
        /\ UNCHANGED <<tamper_detected, last_check, writable, wall, mono, logged_in, last_logged_in, td_last,
                       td_span, gate_due, warned, pc>>

\* Specification SpecUnwritable: usage and bonus time accounted while writes
\* of the state file succeed or fail, and restarts of the agent
NextUnwritable ==
    \/ SetWritable
    \/ add_usage("alice", 1)
    \/ \E how \in SaveFailures : add_usage_save_fails("alice", 1, how)
    \/ add_bonus_time("alice", 1)
    \/ get_time_remaining("alice", 2)
    \/ Restart

SpecUnwritable == Init /\ [][NextUnwritable]_vars

\* C29: when the write of the state file fails, the mutating call (here
\* add_usage) completes without raising, the memory holds its mutation, and
\* a restart after it loads what a restart before it would have loaded: the
\* last successfully written state.
C29_UnwritableStore ==
    [][(/\ last'.op = "add_usage"
        /\ ~writable \/ "save" \in DOMAIN last'.arg)
          => /\ last'.ret = Void
             /\ user_states' = add_usage_fn(Engine, last'.user, last'.arg.minutes).us
             /\ _load_state(store') = _load_state(store)]_vars

-----------------------------------------------------------------------------
(* The status string of a user *)

\* Mutant of status_value: paused is tested before blocked
status_value_paused_first(state, is_logged_in) ==
    IF ~is_logged_in THEN "Offline"
    ELSE IF state.paused THEN "Paused"
    ELSE IF state.blocked THEN "Blocked"
    ELSE "Playing"

\* The tests of get_status on the record and on the answer of who
status_value(state, is_logged_in) ==
    IF ~is_logged_in THEN "Offline"
    ELSE IF state.blocked THEN "Blocked"
    ELSE IF state.paused THEN "Paused"
    ELSE "Playing"

\* Enforcer.get_status on the in-memory map S, observed being what
\* get_logged_in_users returns: the map after get-or-create and the string
get_status_fn(S, u, observed) ==
    LET S1 == get_user_state(S, u)
    IN  [us |-> S1, ret |-> status_value(S1[u], u \in observed)]

\* who_ok: the who command ran; when it fails or times out
\* get_logged_in_users returns the empty set
get_status(u, daily_limit, who_ok) ==
    LET r == get_status_fn(user_states, u, get_logged_in_users(who_ok))
    IN  /\ user_states' = r.us
        /\ last' = Call("get_status", u,
                        [daily_limit |-> daily_limit, who_ok |-> who_ok],
                        [value |-> r.ret])
        /\ UNCHANGED <<tamper_detected, last_check, store, writable, wall, mono, logged_in, last_logged_in,
                       td_last, td_span, gate_due, warned, pc>>

\* Specification SpecStatus: the status is read while users log in and out
\* and are blocked, unblocked, paused and resumed
NextStatus ==
    \/ \E u \in Users : LoginAttempt(u)
    \/ \E u \in Users : Logout(u)
    \/ \E u \in Users : force_logout(u, REASON_LOCK)
    \/ \E u \in Users : unblock_user(u)
    \/ \E u \in Users, paused \in BOOLEAN : set_paused(u, paused)
    \/ \E u \in Users, daily_limit \in DailyLimits, who_ok \in BOOLEAN :
          get_status(u, daily_limit, who_ok)

SpecStatus == Init /\ [][NextStatus]_vars

\* C30: get_status returns exactly one of the four values; Offline whenever
\* the user is not logged in, that is, not in the set get_logged_in_users
\* supplies (the users who lists, nobody when who fails), whatever blocked
\* and paused are; otherwise Blocked if blocked, otherwise Paused if paused,
\* otherwise Playing.
C30_GetStatus ==
    last.op = "get_status" =>
        LET s == View(user_states, last.user)
            listed == last.arg.who_ok /\ last.user \in logged_in
        IN  /\ last.ret.value \in {"Offline", "Blocked", "Paused", "Playing"}
            /\ last.ret.value = "Offline" <=> ~listed
            /\ last.ret.value = "Blocked" <=> listed /\ s.blocked
            /\ last.ret.value = "Paused" <=> listed /\ ~s.blocked /\ s.paused
            /\ last.ret.value = "Playing" <=> listed /\ ~s.blocked /\ ~s.paused

\* alice has a session that the lock could not end, is blocked and paused, and
\* her status is Blocked
C30_Witness ==
    /\ last.op = "get_status"
    /\ last.user = "alice"
    /\ "alice" \in logged_in
    /\ View(user_states, "alice").blocked
    /\ View(user_states, "alice").paused
    /\ last.ret.value = "Blocked"

-----------------------------------------------------------------------------
(* Request files *)

\* Specification SpecFileRequests: scans of the request directory, between
\* request_time and deny_request commands that set and clear the pending
\* request
NextFileRequests ==
    \/ \E scan \in RequestScans : _check_file_requests(scan)
    \/ \E m \in CommandMinutes : _on_command_request_time("alice", m)
    \/ _on_command_deny_request("alice")
    \/ SetClock

SpecFileRequests == Init /\ [][NextFileRequests]_vars

\* A request file that parses and names a configured user
WellFormedFor(f, u) == f.kind = "request" /\ f.username = u /\ get_user(u) # None

\* C31: every file of a scan is deleted by the end of the run; a file leads to
\* a create_time_request exactly when it is well-formed, names a controlled
\* user and that user has no pending request when the file is reached (none
\* before the run and none from an earlier file of the run), so the first
\* such file of a user is the one whose request is pending afterwards and a
\* request that was pending before the run is kept.
C31_FilesConsumedOnce ==
    [][last'.op = "_check_file_requests" =>
        LET files == last'.arg.files
            outcomes == last'.ret.outcomes
            pending(u) == View(user_states, u).pending_request
            first(u) == {i \in DOMAIN files :
                            /\ WellFormedFor(files[i], u)
                            /\ \A j \in 1..(i - 1) : ~WellFormedFor(files[j], u)}
        IN  /\ Len(outcomes) = Len(files)
            /\ \A i \in DOMAIN files :
                  /\ outcomes[i].unlinked
                  /\ outcomes[i].created <=>
                        \E u \in Users : pending(u) = None /\ i \in first(u)
            /\ \A u \in Users :
                  LET q == View(user_states', u).pending_request
                  IN  IF pending(u) # None \/ first(u) = {} THEN q = pending(u)
                      ELSE /\ q # None
                           /\ q[1].minutes = files[CHOOSE i \in first(u) : TRUE].minutes
                           /\ q[1].created_at = wall]_vars

\* A scan held two well-formed files of alice, who had no pending request: the
\* first one made the request and both are gone
C31_Witness ==
    /\ last.op = "_check_file_requests"
    /\ Len(last.arg.files) = 2
    /\ \A i \in 1..2 : WellFormedFor(last.arg.files[i], "alice")
    /\ last.arg.files[1].minutes # last.arg.files[2].minutes
    /\ last.ret.outcomes = <<[created |-> TRUE, unlinked |-> TRUE],
                             [created |-> FALSE, unlinked |-> TRUE]>>
    /\ View(user_states, "alice").pending_request[1].minutes = last.arg.files[1].minutes

-----------------------------------------------------------------------------
(* Usage accounting by elapsed time *)

\* ActivityConfig.idle_threshold_minutes
IDLE_THRESHOLD_MINUTES == 5

\* The configured idle threshold: idle detection disabled, or the default
IdleThresholds == {0, IDLE_THRESHOLD_MINUTES}

\* What the platform reports for a session: idle seconds just below and at
\* the default threshold, and whether the session is locked
IdleReadings == [idle_secs : {299, 300}, is_locked : BOOLEAN]
Active == [idle_secs |-> 0, is_locked |-> FALSE]
ReadingSets == {[u \in Users |-> IF u = "alice" THEN r ELSE Active] : r \in IdleReadings}

\* int(x / 60) for whole seconds x: Python's int() truncates toward zero
int_div(x, d) == IF x >= 0 THEN x \div d ELSE -((-x) \div d)

\* Mutant of elapsed_minutes_of: the interval is rounded to the nearest minute
elapsed_minutes_rounded(now, previous) == int_div(now - previous + 30, 60)

\* elapsed_minutes = int((now - self._last_check) / 60)
elapsed_minutes_of(now, previous) == int_div(now - previous, 60)

\* Mutant of skip_idle: a locked session still accrues
skip_idle_unless_locked(idle_threshold, reading) ==
    idle_threshold > 0 /\ reading.idle_secs >= idle_threshold

\* The idle test of _account_usage (main.py lines 375-380); idle_threshold is
\* in seconds
skip_idle(idle_threshold, reading) ==
    idle_threshold > 0 /\ (reading.idle_secs >= idle_threshold \/ reading.is_locked)

\* The loop of _account_usage (main.py lines 370-386) from the i-th
\* configured user on
RECURSIVE account_users_idle(_, _, _, _, _, _)
account_users_idle(E, i, observed, readings, idle_threshold, elapsed_minutes) ==
    IF i > Len(ConfigUsers) THEN E
    ELSE LET u == ConfigUsers[i].username
             S1 == get_user_state(E.us, u)
             skip == skip_idle(idle_threshold, readings[u])
             S2 == IF idle_threshold > 0 THEN [S1 EXCEPT ![u].is_idle = skip] ELSE S1
             a == add_usage_fn([us |-> S2, st |-> E.st], u, elapsed_minutes)
             E2 == IF u \notin observed THEN E
                   ELSE IF S1[u].paused THEN [us |-> S1, st |-> E.st]
                   ELSE IF skip THEN [us |-> S2, st |-> E.st]
                   ELSE [us |-> a.us, st |-> a.st]
         IN  CHOOSE R \in {account_users_idle(B, i + 1, observed, readings,
                                              idle_threshold, elapsed_minutes) :
                              B \in {E2}} : TRUE

\* KidlockAgent._account_usage with time.time() read from the wall clock
_account_usage_now(idle_threshold_minutes) ==
    \E who_ok \in BOOLEAN, readings \in ReadingSets :
        LET now == wall
            elapsed_minutes == elapsed_minutes_of(now, last_check)
            observed == get_logged_in_users(who_ok)
        IN  \E E \in {IF elapsed_minutes < 1 THEN Engine
                      ELSE account_users_idle(Engine, 1, observed, readings,
                                              idle_threshold_minutes * 60,
                                              elapsed_minutes)} :
                /\ \A u \in DOMAIN E.us : E.us[u].usage_minutes <= MaxUsage
                /\ last_check' = now
                /\ user_states' = E.us
                /\ store' = E.st
                /\ last' = Call("_account_usage", "",
                                [idle_threshold_minutes |-> idle_threshold_minutes,
                                 who_ok |-> who_ok, readings |-> readings],
                                [elapsed_minutes |-> elapsed_minutes])
                /\ UNCHANGED <<tamper_detected, writable, wall, mono, logged_in, last_logged_in, td_last,
                               td_span, gate_due, warned, pc>>

\* Seconds that pass between two steps of the agent, and what the wall clock
\* does meanwhile: keeps pace or is set two minutes ahead
TickSeconds == {50, 70}
WallSkews == {0, 120}

\* Time passes on both clocks, for at most MaxMono minutes in all
TimePasses(seconds, skew) ==
    /\ mono + seconds <= MaxMono * 60
    /\ mono' = mono + seconds
    /\ wall' = wall + seconds + skew
    /\ last' = Call("clock", "", [seconds |-> seconds, skew |-> skew], Void)
    /\ UNCHANGED <<tamper_detected, user_states, store, writable, logged_in, last_logged_in, td_last,
                   td_span, gate_due, warned, pc, last_check>>

\* Specification SpecAccounting: accounting steps while time passes and alice
\* logs in and out and is paused and resumed
NextAccounting ==
    \/ \E seconds \in TickSeconds, skew \in WallSkews : TimePasses(seconds, skew)
    \/ \E idle_threshold_minutes \in IdleThresholds :
          _account_usage_now(idle_threshold_minutes)
    \/ LoginAttempt("alice")
    \/ Logout("alice")
    \/ \E paused \in BOOLEAN : set_paused("alice", paused)

SpecAccounting == Init /\ [][NextAccounting]_vars

\* What C32 says of an accounting step with elapsed_minutes >= 1, seen being
\* the set of logged-in users that get_logged_in_users supplies
AccrualAsClaimed(seen) ==
    (last'.op = "_account_usage" /\ last'.ret.elapsed_minutes >= 1) =>
        \A i \in DOMAIN ConfigUsers :
            LET u == ConfigUsers[i].username
                s == View(user_states, u)
                t == View(user_states', u)
                threshold == last'.arg.idle_threshold_minutes
                reading == last'.arg.readings[u]
                idle == reading.idle_secs >= threshold * 60 \/ reading.is_locked
                accrue == u \in seen /\ ~s.paused /\ (threshold = 0 \/ ~idle)
                before == IF s.last_usage_date = Some(today(wall))
                          THEN s.usage_minutes ELSE 0
            IN  /\ accrue => t.usage_minutes = before + last'.ret.elapsed_minutes
                /\ ~accrue => t.usage_minutes = s.usage_minutes
                /\ (u \in seen /\ ~s.paused /\ threshold > 0 /\ idle) => t.is_idle
                /\ (accrue /\ threshold > 0) => ~t.is_idle

\* C32: in an accounting step with elapsed_minutes >= 1, add_usage is called
\* for a controlled user iff the user is logged in (in the set
\* get_logged_in_users supplies: the users who lists, nobody when who fails),
\* is not paused, and idle detection is disabled or the session is neither
\* idle nor locked; a user skipped for idleness or lock gets is_idle=true, an
\* accrued user is_idle=false when idle detection is enabled, and the usage
\* of every other user is unchanged by the step.
C32_AccruesListed ==
    [][AccrualAsClaimed(IF last'.arg.who_ok THEN logged_in ELSE {})]_vars

\* alice, who had accrued a minute, is skipped in a step with a whole minute
\* elapsed because her session is locked, though not idle
C32_Witness ==
    /\ last.op = "_account_usage"
    /\ last.ret.elapsed_minutes >= 1
    /\ last.arg.who_ok
    /\ "alice" \in logged_in
    /\ last.arg.idle_threshold_minutes = IDLE_THRESHOLD_MINUTES
    /\ last.arg.readings["alice"] = [idle_secs |-> 299, is_locked |-> TRUE]
    /\ View(user_states, "alice").is_idle
    /\ ~View(user_states, "alice").paused
    /\ View(user_states, "alice").usage_minutes = 1

\* C33: every accounting step sets last_check to now; the minutes passed to
\* add_usage are floor((now - last_check) / 60), the remainder being dropped;
\* and the total accrued (alice's usage_minutes, all of it accrued by the
\* steps of this run on one day) never exceeds the minutes that really
\* elapsed, which the monotonic clock counts.
C33_AccruedWithinElapsed ==
    /\ [][last'.op = "_account_usage" =>
            /\ last_check' = wall
            /\ last'.ret.elapsed_minutes >= 1 =>
                  last'.ret.elapsed_minutes = (wall - last_check) \div 60]_vars
    /\ [](\A u \in Users : View(user_states, u).usage_minutes * 60 <= mono)

-----------------------------------------------------------------------------
(* Forced logout by the driver tick *)

\* C34: in a tick, a configured user whom who lists and check_user denies is
\* force-logged-out with check_user's reason and is blocked with it by the
\* end of the tick; a user who is not listed is never force-logged-out; and
\* the forced logout happens once per transition from allowed to disallowed:
\* a user who is still logged in and still blocked for the reason of an
\* earlier tick's forced logout is not force-logged-out again.
C34_ForcedLogoutOnce ==
    [][last'.op = "_check_and_enforce" =>
        \A i \in DOMAIN ConfigUsers :
            LET u == ConfigUsers[i].username
                verdict == check_user_fn(Engine, ConfigUsers[i]).ret
                s == View(user_states, u)
                t == View(user_states', u)
            IN  /\ (u \in last'.arg.observed /\ ~verdict.allowed) =>
                      /\ u \in last'.ret.forced
                      /\ t.blocked /\ t.block_reason = verdict.reason
                /\ u \notin last'.arg.observed => u \notin last'.ret.forced
                /\ u \in last'.ret.forced =>
                      ~(/\ s.blocked
                        /\ s.block_reason \in {REASON_LIMIT, REASON_SCHEDULE}
                        /\ u \in logged_in)]_vars

-----------------------------------------------------------------------------
(* Auto-resume of a pause by the driver tick *)

\* The instants of this specification: the start, one second before the
\* auto-resume delay is over, the end of the delay, a minute after
AutoResumeInstants ==
    {Noon + d : d \in {0, PAUSE_AUTO_RESUME * 60 - 1, PAUSE_AUTO_RESUME * 60,
                       PAUSE_AUTO_RESUME * 60 + 60}}

SetClockAutoResume ==
    /\ \E w \in AutoResumeInstants : w # wall /\ wall' = w
    /\ last' = Call("clock", "", Void, Void)
    /\ UNCHANGED <<tamper_detected, user_states, store, writable, mono, logged_in, last_logged_in,
                   td_last, td_span, gate_due, warned, pc, last_check>>

\* Specification SpecAutoResume: alice is paused and resumed by calls, ticks
\* and accounting steps run, and time passes
NextAutoResume ==
    \/ SetClockAutoResume
    \/ \E paused \in BOOLEAN : set_paused("alice", paused)
    \/ _check_and_enforce
    \/ _account_usage_now(0)
    \/ LoginAttempt("alice")

SpecAutoResume == Init /\ [][NextAutoResume]_vars

\* The pause of s is over at instant w
PauseOver(s, w) ==
    s.paused /\ s.paused_at # None /\ w - s.paused_at[1] >= PAUSE_AUTO_RESUME * 60

\* C35: a tick at or after paused_at + pause_auto_resume minutes unpauses a
\* paused user and reports it, and an earlier tick leaves the pause as it is
\* (so the first tick at or after that time ends it); time passing, logins
\* and accounting steps never end a pause; and an accounting step with a
\* whole minute elapsed accrues the usage of a listed user who is not paused,
\* a resumed user included, and not that of a paused one.
C35_AutoResume ==
    [][/\ last'.op = "_check_and_enforce" =>
            \A u \in Users :
                LET s == View(user_states, u)
                    t == View(user_states', u)
                IN  IF PauseOver(s, wall)
                    THEN ~t.paused /\ t.paused_at = None /\ u \in last'.ret.resumed
                    ELSE /\ t.paused = s.paused /\ t.paused_at = s.paused_at
                         /\ u \notin last'.ret.resumed
       /\ last'.op \in {"clock", "login", "_account_usage"} =>
            \A u \in Users :
                /\ View(user_states', u).paused = View(user_states, u).paused
                /\ View(user_states', u).paused_at = View(user_states, u).paused_at
       /\ (/\ last'.op = "_account_usage"
           /\ last'.ret.elapsed_minutes >= 1
           /\ last'.arg.who_ok
           /\ "alice" \in logged_in) =>
            LET s == View(user_states, "alice")
                before == IF s.last_usage_date = Some(today(wall))
                          THEN s.usage_minutes ELSE 0
            IN  View(user_states', "alice").usage_minutes =
                    IF s.paused THEN s.usage_minutes
                    ELSE before + last'.ret.elapsed_minutes]_vars

\* A tick exactly pause_auto_resume minutes after alice was paused has
\* resumed her
C35_Witness ==
    /\ last.op = "_check_and_enforce"
    /\ wall = Noon + PAUSE_AUTO_RESUME * 60
    /\ "alice" \in last.ret.resumed
    /\ ~View(user_states, "alice").paused
    /\ "alice" \in logged_in

-----------------------------------------------------------------------------
(* The driver's use of the tamper detector *)

\* The tamper step of the main loop (main.py lines 421-430): check(), then
\* the clock_tamper event and the tamper state are published on a change of
\* _tamper_detected. The call record notes the event and the state published
\* (None when nothing is published).
tamper_poll ==
    LET r == check_fn(td_last, wall, mono)
        lead == wall - mono
        raised == r.ret.tampered /\ ~tamper_detected
        cleared == ~r.ret.tampered /\ tamper_detected
    IN  /\ td_last' = r.td
        /\ td_span' = IF td_span = None \/ r.ret.tampered THEN <<lead, lead>>
                      ELSE <<Max(td_span[1], lead), lead>>
        /\ tamper_detected' = IF raised THEN TRUE
                              ELSE IF cleared THEN FALSE ELSE tamper_detected
        /\ last' = Call("tamper_poll", "",
                        [first_of_run |-> td_last = None],
                        [tampered |-> r.ret.tampered,
                         event |-> raised,
                         state |-> IF raised THEN Some(TRUE)
                                   ELSE IF cleared THEN Some(FALSE) ELSE None])
        /\ UNCHANGED <<user_states, store, writable, wall, mono, logged_in,
                       last_logged_in, gate_due, warned, pc, last_check>>

\* Specification SpecTamperDriver: the main loop polls the detector while the
\* clocks run and the wall clock is set
NextTamperDriver ==
    \/ \E step \in WallSteps : ClockStep(step)
    \/ tamper_poll

SpecTamperDriver == Init /\ [][NextTamperDriver]_vars

\* C36: every check stores the clocks it read; a check other than the first
\* reports tampering exactly when the wall clock fell behind the monotonic
\* clock by more than the threshold since the check before it, so the check
\* after a report is clean unless there was a new jump; the driver publishes
\* clock_tamper at every detection and clears the published state at the
\* next check that is not tampered.
C36_ReportedOnce ==
    [][last'.op = "tamper_poll" =>
        LET drift == (wall - td_last[1].wall) - (mono - td_last[1].mono)
        IN  /\ td_last' = Some([wall |-> wall, mono |-> mono])
            /\ last'.ret.tampered = (td_last # None /\ drift < -THRESHOLD)
            /\ last'.ret.event = last'.ret.tampered
            /\ (~last'.ret.tampered /\ tamper_detected) =>
                  last'.ret.state = Some(FALSE) /\ ~tamper_detected']_vars

-----------------------------------------------------------------------------
(* Ticks less than a minute apart *)

\* poll_interval seconds (10 by default) and the longest interval below a minute
ShortSeconds == {10, 59}

\* The main loop sleeps: less than a minute passes on both clocks, once an
\* accounting step has run since the last sleep
ShortSleep(seconds) ==
    /\ last_check = wall
    /\ mono + seconds <= MaxMono * 60
    /\ mono' = mono + seconds
    /\ wall' = wall + seconds
    /\ last' = Call("clock", "", [seconds |-> seconds, skew |-> 0], Void)
    /\ UNCHANGED <<user_states, store, writable, logged_in, last_logged_in, td_last,
                   td_span, gate_due, warned, pc, last_check, tamper_detected>>

\* Specification SpecShortTicks: the main loop with every interval between
\* accounting steps below a minute, alice logging in
NextShortTicks ==
    \/ \E seconds \in ShortSeconds : ShortSleep(seconds)
    \/ _check_and_enforce
    \/ \E idle_threshold_minutes \in IdleThresholds :
          _account_usage_now(idle_threshold_minutes)
    \/ LoginAttempt("alice")

SpecShortTicks == Init /\ [][NextShortTicks]_vars

\* With intervals below a minute no accounting step has a whole minute, no
\* usage is accrued and no tick denies for the daily limit
NeverAccrued ==
    /\ last.op = "_account_usage" => last.ret.elapsed_minutes = 0
    /\ \A u \in Users : View(user_states, u).usage_minutes = 0
    /\ \A u \in Users : View(user_states, u).block_reason # REASON_LIMIT
    /\ last.op = "_check_and_enforce" => last.ret.forced = {}

\* C37 as stated: with every interval between accounting steps below 60
\* seconds, elapsed_minutes is 0 on every tick, usage never increases,
\* check_user never denies with "Daily time limit reached" and no time
\* warning is ever produced.
C37_NoWarningEver == NeverAccrued /\ warned = {}

\* C37, amended: ... and the only time warnings produced are those already
\* due at the usage the run started with: here, with no usage, the
\* thresholds that are not below daily_minutes + bonus_minutes.
C37_ShortTicksNeverAccrue ==
    /\ NeverAccrued
    /\ \A h \in warned :
          LET user_config == get_user(h.user)[1]
          IN  h.threshold >= user_config.daily_minutes
                                 + View(user_states, h.user).bonus_minutes

\* Two minutes have passed in steps of less than one, alice was logged in
\* and listed throughout the last of them, and she has no usage
C37_Witness ==
    /\ last.op = "_account_usage"
    /\ last.arg.who_ok
    /\ last.arg.idle_threshold_minutes = 0
    /\ mono >= 118
    /\ "alice" \in logged_in /\ "alice" \in last_logged_in
    /\ View(user_states, "alice").usage_minutes = 0
    /\ View(user_states, "alice").last_usage_date = Some(today(wall))

-----------------------------------------------------------------------------
(* What a tick does to a block *)

\* Specification SpecBlockTicks: alice logs in, uses her time, is locked,
\* unlocked and given bonus time, while the driver ticks on Friday and on
\* Saturday outside and inside her schedule window
\* Friday noon, and Saturday one minute before and two hours into the
\* weekend window
BlockTickInstants == {Noon, 2 * SecondsPerDay + 9 * 3600 + 59 * 60,
                      Noon + SecondsPerDay}

\* Time passes from one of these instants to a later one
SetClockBlockTicks ==
    /\ \E w \in BlockTickInstants : w > wall /\ wall' = w
    /\ last' = Call("clock", "", Void, Void)
    /\ UNCHANGED <<tamper_detected, last_check, pc, warned, user_states, store, writable, mono, logged_in, last_logged_in,
                   td_last, td_span, gate_due>>

NextBlockTicks ==
    \/ SetClockBlockTicks
    \/ _check_and_enforce
    \/ add_usage("alice", 1)
    \/ add_bonus_time("alice", 1)
    \/ \E t \in CommandUsers : _on_command_lock(t)
    \/ \E t \in CommandUsers : _on_command_unlock(t)
    \/ \E u \in LoginUsers : LoginAttempt(u)

SpecBlockTicks == Init /\ [][NextBlockTicks]_vars

\* C38: a tick clears blocked and block_reason exactly for a configured user
\* who is in the logged-in set the tick read and for whom check_user allows,
\* whatever the reason of the block (a manual lock included); for a user who
\* is not in that set no tick changes blocked or block_reason, so a block
\* persists across ticks, day rollovers and re-entry into the schedule
\* window until an unlock command or, for a limit-triggered block, bonus
\* time.
C38_TickAndBlock ==
    [][\A i \in DOMAIN ConfigUsers :
          LET u == ConfigUsers[i].username
              s == View(user_states, u)
              t == View(user_states', u)
              tick == last'.op = "_check_and_enforce"
              listed == tick /\ u \in last'.arg.observed
              allowed == check_user_fn(Engine, ConfigUsers[i]).ret.allowed
          IN  /\ listed /\ allowed => ~t.blocked /\ t.block_reason = ""
              /\ tick /\ ~listed =>
                    t.blocked = s.blocked /\ t.block_reason = s.block_reason
              /\ s.blocked /\ ~t.blocked =>
                    \/ listed /\ allowed
                    \/ last'.op = "unlock"
                    \/ /\ last'.op = "add_bonus_time"
                       /\ last'.user = u
                       /\ is_limit_block(s)]_vars

\* A tick has just run on Saturday inside alice's window: she is not in
\* the set it read, and the block an earlier tick set for being outside
\* the window is still there
C38_Witness ==
    /\ last.op = "_check_and_enforce"
    /\ "alice" \notin last.arg.observed
    /\ "alice" \notin logged_in
    /\ today(wall) = 2
    /\ is_within_schedule(ConfigUsers[1].schedule, wall)
    /\ View(user_states, "alice").last_usage_date = Some(2)
    /\ View(user_states, "alice").blocked
    /\ View(user_states, "alice").block_reason = REASON_SCHEDULE

-----------------------------------------------------------------------------
(* The standalone PAM script, src/pam-check.py *)

\* Mutant of check_login: the bonus minutes stored for the user extend the
\* limit
check_login_with_bonus(st, username, w) ==
    LET user_config == get_user(username)
        user_state == dict_get(st.data, username, EmptyMap)
        daily_limit == user_config[1].daily_minutes
    IN  IF user_config = None THEN [allowed |-> TRUE, reason |-> ""]
        ELSE IF ~is_within_schedule(user_config[1].schedule, w)
        THEN [allowed |-> FALSE, reason |-> "Login not allowed at this time"]
        ELSE IF st.file # "ok" THEN [allowed |-> TRUE, reason |-> ""]
        ELSE IF dict_get(user_state, "blocked", FALSE)
        THEN [allowed |-> FALSE,
              reason |-> dict_get(user_state, "block_reason", "Access blocked")]
        ELSE IF /\ daily_limit > 0
                /\ dict_get(user_state, "last_usage_date", None) = Some(today(w))
                /\ dict_get(user_state, "usage_minutes", 0)
                       >= daily_limit + dict_get(user_state, "bonus_minutes", 0)
        THEN [allowed |-> FALSE, reason |-> "Daily time limit reached"]
        ELSE [allowed |-> TRUE, reason |-> ""]

\* pam-check.py, check_login, reading the configuration and the state file
\* st at wall-clock time w: no configuration for the user allows; then the
\* schedule, the state file (absent or unreadable allows), the blocked flag
\* and the daily limit of a record dated today. The script's own
\* is_within_schedule (lines 43-58) computes what the engine's does.
check_login(st, username, w) ==
    LET user_config == get_user(username)
        user_state == dict_get(st.data, username, EmptyMap)
        daily_limit == user_config[1].daily_minutes
    IN  IF user_config = None THEN [allowed |-> TRUE, reason |-> ""]
        ELSE IF ~is_within_schedule(user_config[1].schedule, w)
        THEN [allowed |-> FALSE, reason |-> "Login not allowed at this time"]
        ELSE IF st.file # "ok" THEN [allowed |-> TRUE, reason |-> ""]
        ELSE IF dict_get(user_state, "blocked", FALSE)
        THEN [allowed |-> FALSE,
              reason |-> dict_get(user_state, "block_reason", "Access blocked")]
        ELSE IF /\ daily_limit > 0
                /\ dict_get(user_state, "last_usage_date", None) = Some(today(w))
                /\ dict_get(user_state, "usage_minutes", 0) >= daily_limit
        THEN [allowed |-> FALSE, reason |-> "Daily time limit reached"]
        ELSE [allowed |-> TRUE, reason |-> ""]

\* pam_exec runs pam-check.py for a login of u (main, lines 102-115): exit
\* status 1 refuses the session
pam_check_script(u) ==
    LET r == check_login(store, u, wall)
    IN  /\ logged_in' = IF r.allowed THEN logged_in \cup {u} ELSE logged_in
        /\ last' = Call("pam-check.py", u, Void, r)
        /\ UNCHANGED <<tamper_detected, last_check, pc, warned, user_states, store, writable, wall, mono, last_logged_in,
                       td_last, td_span, gate_due>>

\* Specification SpecPamScript: the engine accounts, checks, blocks and
\* grants bonus time on both days while logins go through the script
NextPamScript ==
    \/ SetClock
    \/ \E i \in DOMAIN ConfigUsers : check_user(ConfigUsers[i])
    \/ add_usage("alice", 1)
    \/ add_bonus_time("alice", 1)
    \/ force_logout("alice", REASON_LOCK)
    \/ unblock_user("alice")
    \/ \E u \in Users : pam_check_script(u)

SpecPamScript == Init /\ [][NextPamScript]_vars

\* The script denies u for the daily limit
ScriptDeniesForLimit(u) ==
    /\ ~check_login(store, u, wall).allowed
    /\ check_login(store, u, wall).reason = "Daily time limit reached"

\* The engine's check_user and the login gate check_login_allowed both allow
\* the user of ConfigUsers[i]
EngineAllows(i) ==
    /\ check_user_fn(Engine, ConfigUsers[i]).ret.allowed
    /\ check_login_allowed(store, ConfigUsers[i].username).allowed

\* The user of ConfigUsers[i] is not blocked, is inside the schedule window
\* and has usage_minutes in [daily_minutes, daily_minutes + bonus_minutes)
WithinBonus(i) ==
    LET s == View(user_states, ConfigUsers[i].username)
    IN  /\ ~s.blocked
        /\ is_within_schedule(ConfigUsers[i].schedule, wall)
        /\ s.usage_minutes >= ConfigUsers[i].daily_minutes
        /\ s.usage_minutes < ConfigUsers[i].daily_minutes + s.bonus_minutes

\* C39 as stated: the standalone PAM script denies a login with "Daily time
\* limit reached" whenever the stored last_usage_date is today and
\* usage_minutes >= daily_minutes, without adding bonus_minutes; a user who
\* is not blocked, is inside the schedule window and has usage_minutes in
\* [daily_minutes, daily_minutes + bonus_minutes) is allowed by check_user
\* and by check_login_allowed but denied by the script.
C39_ScriptDeniesAtLimit ==
    \A i \in DOMAIN ConfigUsers :
        LET u == ConfigUsers[i].username
            s == Stored(store, u)
        IN  /\ /\ store.file = "ok"
               /\ s.last_usage_date = Some(today(wall))
               /\ s.usage_minutes >= ConfigUsers[i].daily_minutes
               => ScriptDeniesForLimit(u)
            /\ WithinBonus(i) => EngineAllows(i) /\ ScriptDeniesForLimit(u)

\* C39, amended: for a user with daily_minutes > 0 whom the script finds
\* inside the schedule window and not blocked in a readable state file, the
\* script denies with "Daily time limit reached" exactly when the stored
\* last_usage_date is today and the stored usage_minutes >= daily_minutes,
\* without adding bonus_minutes; such a user whose record is dated today and
\* whose usage_minutes is in [daily_minutes, daily_minutes + bonus_minutes)
\* is allowed by check_user and by check_login_allowed but denied by the
\* script.
C39_ScriptIgnoresBonus ==
    \A i \in DOMAIN ConfigUsers :
        LET u == ConfigUsers[i].username
            s == Stored(store, u)
        IN  /\ /\ ConfigUsers[i].daily_minutes > 0
               /\ store.file = "ok"
               /\ ~s.blocked
               /\ is_within_schedule(ConfigUsers[i].schedule, wall)
               => (ScriptDeniesForLimit(u) <=>
                     /\ s.last_usage_date = Some(today(wall))
                     /\ s.usage_minutes >= ConfigUsers[i].daily_minutes)
            /\ /\ ConfigUsers[i].daily_minutes > 0
               /\ View(user_states, u).last_usage_date = Some(today(wall))
               /\ WithinBonus(i)
               => EngineAllows(i) /\ ScriptDeniesForLimit(u)

\* The script has just refused alice for the daily limit while she has
\* used 2 of her 2 + 1 minutes and the engine and its gate allow her
C39_Witness ==
    /\ last.op = "pam-check.py"
    /\ last.user = "alice"
    /\ ~last.ret.allowed
    /\ last.ret.reason = "Daily time limit reached"
    /\ View(user_states, "alice").usage_minutes = 2
    /\ View(user_states, "alice").bonus_minutes = 1
    /\ EngineAllows(1)

-----------------------------------------------------------------------------
(* Day rollover when the wall clock is set to another date *)

\* Specification SpecClockSet: the wall clock is set from Friday to Saturday
\* and back while the main loop polls the tamper detector and alice is
\* checked, accounted, given bonus time and warned
NextClockSet ==
    \/ SetClockDay
    \/ tamper_poll
    \/ check_user(ConfigUsers[1])
    \/ add_usage("alice", 1)
    \/ add_bonus_time("alice", 1)
    \/ mark_warning_sent("alice", 1)

SpecClockSet == Init /\ [][NextClockSet]_vars

\* C40: day rollover is triggered by inequality of dates, not by their
\* order: a check_user call that finds the wall-clock date different from
\* last_usage_date, earlier or later, resets usage_minutes, bonus_minutes
\* and warnings_sent, whether or not tampering has been reported; the tamper
\* step of the main loop changes no UserState field and nothing in the
\* store, so it neither prevents nor undoes the reset: it publishes the
\* event and the tamper state only.
C40_RolloverByInequality ==
    [][/\ last'.op = "check_user" =>
            LET u == last'.user
                s == View(user_states, u)
                t == View(user_states', u)
            IN  IF s.last_usage_date # Some(today(wall))
                THEN /\ last'.arg.rolled
                     /\ t = [s EXCEPT !.usage_minutes = 0, !.bonus_minutes = 0,
                                      !.warnings_sent = {},
                                      !.last_usage_date = Some(today(wall))]
                ELSE ~last'.arg.rolled /\ t = s
       /\ last'.op = "tamper_poll" =>
            /\ UNCHANGED <<user_states, store, logged_in, gate_due, warned>>
            /\ last'.ret.event = (last'.ret.tampered /\ ~tamper_detected)
            /\ last'.ret.state # None => tamper_detected' = last'.ret.state[1]]_vars

\* The clock was set back from Saturday, where alice was warned, to Friday;
\* the poll reported it, and the check_user after the report has just
\* reset alice's record, dated Friday again
C40_Witness ==
    /\ last.op = "check_user"
    /\ last.user = "alice"
    /\ last.arg.rolled
    /\ tamper_detected
    /\ td_last = Some([wall |-> wall, mono |-> mono])
    /\ today(wall) = 1
    /\ \E h \in warned : h.user = "alice" /\ h.day = 2
    /\ View(user_states, "alice").last_usage_date = Some(1)
    /\ View(user_states, "alice").warnings_sent = {}

====
